---- MODULE Spec2Model ----
(***************************************************************************)
(* Simulation core of the submarine welding simulator: the manipulator arm *)
(* (WeldingArmPhysics), the vehicle integrator (SubmarinePhysics), the     *)
(* weld engine (WeldingSystem + analyzeWeldQuality) with the listeners the *)
(* application registers on it, and the scoring engine (ScoringSystem +    *)
(* the game-state reducer).                                                *)
(*                                                                         *)
(* Numbers are fixed point.  Angles are milliradians, lengths millimetres, *)
(* velocities mrad/s and mm/s, time steps milliseconds, control axes and   *)
(* the score multiplier thousandths.  Weld samples carry the travel speed  *)
(* in mm/s, the angles in degrees, the arc length in tenths of a           *)
(* millimetre and the distance to the target in millimetres.               *)
(***************************************************************************)
EXTENDS Integers, Sequences, FiniteSets

VARIABLES
    \* WeldingArmPhysics
    joints, jointVelocities, extension, extensionVelocity, armInput, armOps,
    armLast,        \* the operation that produced this state
    armClampHit,    \* the last update integrated a joint or the extension past a limit
    weldingArm,     \* the WeldingArm entity: jointAngles, targetAngles, extension
    \* the module-level singletons and what the application hangs on them
    weldingSystem,  \* WeldingSystem: welding, samples, arcStability, recentArcLengths
    scoringSystem,  \* ScoringSystem: multiplier, comboActive
    gameState,      \* GameStateStore.state: score.total, score.multiplier, welding.arcStability
    missionLoader,  \* MissionLoader.runtimeState: weldsCompleted, qualitySum
    notifications,  \* what UIManager.showNotification was asked to show, in order
    weldOps, weldLast,    \* calls made on the weld engine; the last one and what it gave
    scoreOps, scoreLast,  \* calls made on the scoring engine; the last one
    \* SubmarinePhysics
    position, quaternion, linearVelocity, angularVelocity, thrustInput,
    rollInput, subOps,
    subLast,        \* the operation that produced this state
    subClampHit,    \* which clamps of the last update changed a value
    subDelta,       \* the delta the last update was called with
    subCalls,       \* applyThrust calls since the last update, and those it consumed
    \* App
    frame           \* the game loop: where it stands in the tick and what it called

armVars == <<joints, jointVelocities, extension, extensionVelocity, armInput,
             armOps, armLast, armClampHit, weldingArm>>

appVars == <<gameState, missionLoader, notifications>>

weldVars == <<weldingSystem, weldOps, weldLast>>

scoreVars == <<scoringSystem, scoreOps, scoreLast>>

subVars == <<position, quaternion, linearVelocity, angularVelocity,
             thrustInput, rollInput, subOps, subLast, subClampHit, subDelta,
             subCalls>>

loopVars == <<frame>>

vars == <<armVars, weldVars, scoreVars, appVars, subVars, loopVars>>

(***************************************************************************)
(* Arithmetic helpers                                                      *)
(***************************************************************************)
Abs(x) == IF x < 0 THEN -x ELSE x

Min(a, b) == IF a < b THEN a ELSE b

Max(a, b) == IF a > b THEN a ELSE b

\* a / b on the fixed-point grid, rounded toward zero (b > 0)
Quot(a, b) == IF a >= 0 THEN a \div b ELSE -((-a) \div b)

\* THREE.MathUtils.clamp(value, min, max) = max(min, min(max, value))
Clamp(value, lo, hi) == Max(lo, Min(hi, value))

(***************************************************************************)
(* Bounds of the model                                                     *)
(***************************************************************************)
MaxArmOps == 5

MaxWeldOps == 6

MaxSamples == 3

MaxScoreOps == 4

MaxScenarioCalls == 10

MaxSubOps == 5

MaxTicks == 4

(***************************************************************************)
(* Constants of the arm (core/Constants and WeldingArmPhysics)             *)
(***************************************************************************)
PI_MILLI == 3142

ARM_JOINT_COUNT == 4

ARM_MAX_EXTENSION == 3000

ARM_MIN_EXTENSION == 500

ARM_ROTATION_SPEED == 1500

ARM_EXTENSION_SPEED == 800

DAMPING == 5

MAX_DT == 100

ARM_JOINT_LIMITS ==
    [base     |-> [min |-> -Quot(PI_MILLI * 3, 4), max |-> Quot(PI_MILLI * 3, 4)],
     shoulder |-> [min |-> -Quot(PI_MILLI, 2),     max |-> Quot(PI_MILLI, 4)],
     elbow    |-> [min |-> -Quot(PI_MILLI * 3, 4), max |-> 0],
     wrist    |-> [min |-> -PI_MILLI,              max |->  PI_MILLI]]

JointNames == {"base", "shoulder", "elbow", "wrist"}

\* the pose reset() restores
DefaultJoints ==
    [base |-> 0, shoulder |-> 0, elbow |-> -Quot(PI_MILLI, 4), wrist |-> 0]

ZeroJoints == [base |-> 0, shoulder |-> 0, elbow |-> 0, wrist |-> 0]

DefaultExtension ==
    ARM_MIN_EXTENSION + Quot(ARM_MAX_EXTENSION - ARM_MIN_EXTENSION, 2)

ZeroInput == [yaw |-> 0, pitch |-> 0, extend |-> 0, rotate |-> 0]

(***************************************************************************)
(* Inputs the callers are drawn from.  applyInput stores what it is given, *)
(* so axes outside [-1000, 1000] are part of the input space.              *)
(***************************************************************************)
ArmAxisInputs ==
    { [yaw |->  1000, pitch |->  1000, extend |->  1000, rotate |->  1000],
      [yaw |-> -1000, pitch |-> -1000, extend |-> -1000, rotate |-> -1000],
      [yaw |->  4000, pitch |-> -500,  extend |->  4000, rotate |-> -6000],
      [yaw |-> -4000, pitch |->  4000, extend |-> -4000, rotate |->  6000] }

DeltaInputs == {0, 16, 100, 250}

JointAngleInputs ==
    { <<0, 0, -50, 3100>>,
      <<5000, -5000, 700, -9000>>,
      <<-2300, 780, -2340, 0>>,
      <<100, 200, 300>> }

ExtensionInputs == {-200, 520, 2990, 7000}

(***************************************************************************)
(* WeldingArmPhysics                                                       *)
(***************************************************************************)
clampJoint(angle, limits) == Clamp(angle, limits.min, limits.max)

\* 1000 * exp(-x / 1000) for 0 <= x <= 500, by its series to the 4th term
ExpNegMilli(x) ==
    LET t2 == Quot(x * x, 2000)
        t3 == Quot(t2 * x, 3000)
        t4 == Quot(t3 * x, 4000)
    IN  1000 - x + t2 - t3 + t4

\* smoothing = 1 - Math.exp(-DAMPING * dt), in thousandths
Smoothing(dt) == 1000 - ExpNegMilli(DAMPING * dt)

\* v += (target - v) * smoothing
Damp(v, target, dt) == v + Quot((target - v) * Smoothing(dt), 1000)

updateJointVelocities(jv, in, dt) ==
    [base     |-> Damp(jv.base, Quot(in.yaw * ARM_ROTATION_SPEED, 1000), dt),
     shoulder |-> Damp(jv.shoulder,
                       Quot(Quot(in.pitch * ARM_ROTATION_SPEED, 1000) * 7, 10), dt),
     elbow    |-> Damp(jv.elbow, Quot(in.pitch * ARM_ROTATION_SPEED, 1000), dt),
     wrist    |-> Damp(jv.wrist,
                       Quot(Quot(in.rotate * ARM_ROTATION_SPEED, 1000) * 15, 10), dt)]

updateExtensionVelocity(ev, in, dt) ==
    Damp(ev, Quot(in.extend * ARM_EXTENSION_SPEED, 1000), dt)

\* integrateJoint with the clampJoint call left out
integrateJoint_NoClamp(angle, vel, dt, limits) == angle + Quot(vel * dt, 1000)

\* angle += velocity * dt, then clampJoint
integrateJoint(angle, vel, dt, limits) ==
    clampJoint(angle + Quot(vel * dt, 1000), limits)

integrateJoints(j, jv, dt) ==
    [n \in JointNames |-> integrateJoint(j[n], jv[n], dt, ARM_JOINT_LIMITS[n])]

\* "Stop velocity at limits"
stopAtLimits(j, jv) ==
    [n \in JointNames |->
        IF j[n] <= ARM_JOINT_LIMITS[n].min \/ j[n] >= ARM_JOINT_LIMITS[n].max
        THEN 0 ELSE jv[n]]

updateExtension(ext, ev, dt) ==
    Clamp(ext + Quot(ev * dt, 1000), ARM_MIN_EXTENSION, ARM_MAX_EXTENSION)

(***************************************************************************)
(* The WeldingArm entity (entities/WeldingArm): the arm the submarine      *)
(* carries and the game loop drives.  Joints are in the order of           *)
(* jointConfigs: base, shoulder, elbow, wrist.                             *)
(***************************************************************************)
JointOrder == <<"base", "shoulder", "elbow", "wrist">>

NewWeldingArm ==
    [jointAngles |-> <<0, 0, 0, 0>>, targetAngles |-> <<0, 0, 0, 0>>,
     extension |-> ARM_MIN_EXTENSION, ops |-> 0, last |-> "new"]

\* input * speed * 0.016: the step of a target for one call
inputStep(axis, speed) == Quot(axis * speed * 16, 1000000)

\* applyInput: the targets step and are clamped; the extension too
entityApplyInput(arm, in) ==
    LET stepped == <<arm.targetAngles[1] + inputStep(in.yaw, ARM_ROTATION_SPEED),
                     arm.targetAngles[2]
                         + Quot(inputStep(in.pitch, ARM_ROTATION_SPEED), 2),
                     arm.targetAngles[3]
                         - Quot(inputStep(in.pitch, ARM_ROTATION_SPEED), 2),
                     arm.targetAngles[4] + inputStep(in.rotate, ARM_ROTATION_SPEED)>>
    IN  [arm EXCEPT
           !.targetAngles =
               [i \in 1..4 |->
                   Max(ARM_JOINT_LIMITS[JointOrder[i]].min,
                       Min(ARM_JOINT_LIMITS[JointOrder[i]].max, stepped[i]))],
           !.extension =
               Max(ARM_MIN_EXTENSION,
                   Min(ARM_MAX_EXTENSION,
                       @ + inputStep(in.extend, ARM_EXTENSION_SPEED)))]

\* update(delta): jointAngles[i] += (targetAngles[i] - jointAngles[i]) * 8 * delta
entityUpdate(arm, delta) ==
    [arm EXCEPT
       !.jointAngles =
           [i \in 1..4 |->
               arm.jointAngles[i]
               + Quot((arm.targetAngles[i] - arm.jointAngles[i]) * 8 * delta, 1000)]]

ArmEntity_applyInput ==
    /\ weldingArm.ops < MaxArmOps
    /\ \E in \in ArmAxisInputs :
         weldingArm' = [entityApplyInput(weldingArm, in) EXCEPT
                          !.ops = @ + 1, !.last = "applyInput"]
    /\ UNCHANGED <<joints, jointVelocities, extension, extensionVelocity,
                   armInput, armOps, armLast, armClampHit>>
    /\ UNCHANGED <<weldVars, scoreVars, appVars, subVars, loopVars>>

ArmEntity_update ==
    /\ weldingArm.ops < MaxArmOps
    /\ \E delta \in DeltaInputs :
         weldingArm' = [entityUpdate(weldingArm, delta) EXCEPT
                          !.ops = @ + 1, !.last = "update"]
    /\ UNCHANGED <<joints, jointVelocities, extension, extensionVelocity,
                   armInput, armOps, armLast, armClampHit>>
    /\ UNCHANGED <<weldVars, scoreVars, appVars, subVars, loopVars>>

ArmEntity_reset ==
    /\ weldingArm.ops < MaxArmOps
    /\ weldingArm.ops > 0
    /\ weldingArm' = [NewWeldingArm EXCEPT
                        !.ops = weldingArm.ops + 1, !.last = "reset"]
    /\ UNCHANGED <<joints, jointVelocities, extension, extensionVelocity,
                   armInput, armOps, armLast, armClampHit>>
    /\ UNCHANGED <<weldVars, scoreVars, appVars, subVars, loopVars>>

ArmEntityNext ==
    \/ ArmEntity_applyInput
    \/ ArmEntity_update
    \/ ArmEntity_reset

ArmInit ==
    /\ joints = DefaultJoints
    /\ jointVelocities = ZeroJoints
    /\ extension = DefaultExtension
    /\ extensionVelocity = 0
    /\ armInput = ZeroInput
    /\ armOps = 0
    /\ armLast = "new"
    /\ armClampHit = FALSE
    /\ weldingArm = NewWeldingArm

Arm_applyInput ==
    /\ armOps < MaxArmOps
    /\ UNCHANGED <<weldingArm, weldVars, scoreVars, appVars, subVars, loopVars>>
    /\ \E in \in ArmAxisInputs : armInput' = in
    /\ armOps' = armOps + 1
    /\ armLast' = "applyInput"
    /\ armClampHit' = FALSE
    /\ UNCHANGED <<joints, jointVelocities, extension, extensionVelocity>>

Arm_update ==
    /\ armOps < MaxArmOps
    /\ UNCHANGED <<weldingArm, weldVars, scoreVars, appVars, subVars, loopVars>>
    /\ \E delta \in DeltaInputs :
         LET dt  == Min(delta, MAX_DT)
             jv1 == updateJointVelocities(jointVelocities, armInput, dt)
             ev1 == updateExtensionVelocity(extensionVelocity, armInput, dt)
             j1  == integrateJoints(joints, jv1, dt)
             e1  == updateExtension(extension, ev1, dt)
         IN  /\ joints' = j1
             /\ jointVelocities' = stopAtLimits(j1, jv1)
             /\ extension' = e1
             /\ extensionVelocity' =
                  IF e1 <= ARM_MIN_EXTENSION \/ e1 >= ARM_MAX_EXTENSION
                  THEN 0 ELSE ev1
             /\ armClampHit' =
                  \/ \E n \in JointNames :
                        j1[n] # joints[n] + Quot(jv1[n] * dt, 1000)
                  \/ e1 # extension + Quot(ev1 * dt, 1000)
    /\ armInput' = ZeroInput
    /\ armOps' = armOps + 1
    /\ armLast' = "update"

Arm_setJointAngles ==
    /\ armOps < MaxArmOps
    /\ UNCHANGED <<weldingArm, weldVars, scoreVars, appVars, subVars, loopVars>>
    /\ \E angles \in JointAngleInputs :
         joints' =
            IF Len(angles) >= ARM_JOINT_COUNT
            THEN [base     |-> clampJoint(angles[1], ARM_JOINT_LIMITS.base),
                  shoulder |-> clampJoint(angles[2], ARM_JOINT_LIMITS.shoulder),
                  elbow    |-> clampJoint(angles[3], ARM_JOINT_LIMITS.elbow),
                  wrist    |-> clampJoint(angles[4], ARM_JOINT_LIMITS.wrist)]
            ELSE joints
    /\ armOps' = armOps + 1
    /\ armLast' = "setJointAngles"
    /\ armClampHit' = FALSE
    /\ UNCHANGED <<jointVelocities, extension, extensionVelocity, armInput>>

Arm_setExtension ==
    /\ armOps < MaxArmOps
    /\ UNCHANGED <<weldingArm, weldVars, scoreVars, appVars, subVars, loopVars>>
    /\ \E ext \in ExtensionInputs :
         extension' = Clamp(ext, ARM_MIN_EXTENSION, ARM_MAX_EXTENSION)
    /\ armOps' = armOps + 1
    /\ armLast' = "setExtension"
    /\ armClampHit' = FALSE
    /\ UNCHANGED <<joints, jointVelocities, extensionVelocity, armInput>>

Arm_reset ==
    /\ armOps < MaxArmOps
    /\ UNCHANGED <<weldingArm, weldVars, scoreVars, appVars, subVars, loopVars>>
    /\ armOps > 0
    /\ joints' = DefaultJoints
    /\ jointVelocities' = ZeroJoints
    /\ extension' = DefaultExtension
    /\ extensionVelocity' = 0
    /\ armOps' = armOps + 1
    /\ armLast' = "reset"
    /\ armClampHit' = FALSE
    /\ UNCHANGED armInput

ArmNext ==
    \/ Arm_applyInput
    \/ Arm_update
    \/ Arm_setJointAngles
    \/ Arm_setExtension
    \/ Arm_reset

(***************************************************************************)
(* Welding parameters and rating thresholds (core/Constants)               *)
(***************************************************************************)
WELD_IDEAL_TRAVEL_SPEED == 150

WELD_SPEED_TOLERANCE == 50

WELD_IDEAL_WORK_ANGLE == 90

WELD_WORK_ANGLE_TOLERANCE == 15

WELD_IDEAL_TRAVEL_ANGLE == 15

WELD_TRAVEL_ANGLE_TOLERANCE == 10

WELD_IDEAL_ARC_LENGTH == 30

WELD_ARC_LENGTH_TOLERANCE == 10

SCORE_RATING_THRESHOLDS ==
    [S |-> 95, A |-> 85, B |-> 70, C |-> 55, D |-> 40, F |-> 0]

Ratings == {"S", "A", "B", "C", "D", "F"}

(***************************************************************************)
(* analyzeWeldQuality.  A score of a list of n samples is an exact         *)
(* fraction: it is carried as its numerator over ScoreDen(n), and the      *)
(* weighted overall score in twentieths.  A sample's position and          *)
(* timestamp are not read by the analysis and are left out of the sample   *)
(* record.                                                                 *)
(***************************************************************************)
RECURSIVE SeqSum(_)
SeqSum(xs) == IF xs = <<>> THEN 0 ELSE xs[1] + SeqSum(Tail(xs))

Column(samples, f) == [i \in 1..Len(samples) |-> samples[i][f]]

Squares(xs) == [i \in 1..Len(xs) |-> xs[i] * xs[i]]

ScoreDen(n) == 3000 * n * n

\* n * n * variance(xs): sum (x - avg)^2 / n = (n * sum x^2 - (sum x)^2) / n^2
VarianceNum(xs) == Len(xs) * SeqSum(Squares(xs)) - SeqSum(xs) * SeqSum(xs)

\* max(0, 100 - (|average(xs) - ideal| / tolerance) * 50), over ScoreDen(n)
DeviationScore(xs, ideal, tolerance) ==
    LET n == Len(xs)
    IN  Max(0, 100 * ScoreDen(n)
               - Abs(SeqSum(xs) - ideal * n) * 50 * ((3000 * n) \div tolerance))

\* speeds are mm/s: variance * 1000 in (m/s)^2 is VarianceNum / (1000 n^2)
calculateSpeedScore(samples) ==
    LET speeds == Column(samples, "travelSpeed")
        n == Len(samples)
        speedScore == DeviationScore(speeds, WELD_IDEAL_TRAVEL_SPEED,
                                     WELD_SPEED_TOLERANCE)
        variancePenalty == Min(20 * ScoreDen(n), 3 * VarianceNum(speeds))
    IN  Max(0, speedScore - variancePenalty)

calculateAngleScore(samples) ==
    LET workAngleScore ==
            DeviationScore(Column(samples, "workAngle"), WELD_IDEAL_WORK_ANGLE,
                           WELD_WORK_ANGLE_TOLERANCE)
        travelAngleScore ==
            DeviationScore(Column(samples, "travelAngle"),
                           WELD_IDEAL_TRAVEL_ANGLE, WELD_TRAVEL_ANGLE_TOLERANCE)
    IN  (workAngleScore * 6 + travelAngleScore * 4) \div 10

\* calculateArcScore without the floors at 0
calculateArcScore_NoFloor(samples) ==
    LET arcLengths == Column(samples, "arcLength")
        n == Len(samples)
        arcScore == 100 * ScoreDen(n)
                    - Abs(SeqSum(arcLengths) - WELD_IDEAL_ARC_LENGTH * n) * 50
                      * ((3000 * n) \div WELD_ARC_LENGTH_TOLERANCE)
        variancePenalty == Min(25 * ScoreDen(n), 1500 * VarianceNum(arcLengths))
    IN  arcScore - variancePenalty

\* arc lengths are 0.1 mm: variance * 50 in mm^2 is VarianceNum / (2 n^2)
calculateArcScore(samples) ==
    LET arcLengths == Column(samples, "arcLength")
        n == Len(samples)
        arcScore == DeviationScore(arcLengths, WELD_IDEAL_ARC_LENGTH,
                                   WELD_ARC_LENGTH_TOLERANCE)
        variancePenalty == Min(25 * ScoreDen(n), 1500 * VarianceNum(arcLengths))
    IN  Max(0, arcScore - variancePenalty)

\* max(0, 100 - avgDistance * 10)
calculateAccuracyScore(samples) ==
    LET n == Len(samples)
    IN  Max(0, 100 * ScoreDen(n)
               - SeqSum(Column(samples, "distanceToTarget")) * 10 * 3000 * n)

calculateConsistencyScore(samples) ==
    LET n == Len(samples)
        speedVariance == VarianceNum(Column(samples, "travelSpeed"))
        arcVariance == VarianceNum(Column(samples, "arcLength"))
        distanceVariance == VarianceNum(Column(samples, "distanceToTarget"))
        speedConsistency == Max(0, 100 * ScoreDen(n) - 6 * speedVariance)
        arcConsistency == Max(0, 100 * ScoreDen(n) - 3000 * arcVariance)
        distanceConsistency ==
            Max(0, 100 * ScoreDen(n) - 150000 * distanceVariance)
    IN  (speedConsistency + arcConsistency + distanceConsistency) \div 3

\* the pairs <<j, i, n>> with i - j = n / 10 whose positions, the doubles j / n
\* and i / n, differ by less than the double 0.1 (lists of 10 and 20 samples)
NearTies ==
    {<<2, 3, 10>>, <<4, 5, 10>>, <<5, 6, 10>>, <<6, 7, 10>>, <<8, 9, 10>>,
     <<1, 3, 20>>, <<4, 6, 20>>, <<5, 7, 20>>, <<8, 10, 20>>, <<10, 12, 20>>,
     <<11, 13, 20>>, <<12, 14, 20>>, <<13, 15, 20>>, <<15, 17, 20>>,
     <<16, 18, 20>>, <<17, 19, 20>>}

\* Math.abs(d.position - position) < 0.1 for the positions j / n and i / n
near(j, i, n) ==
    \/ Abs(j - i) * 10 < n
    \/ <<Min(j, i), Max(j, i), n>> \in NearTies

\* some defect of this type within a normalized-position delta < 0.1 of
\* sample i of n
HasNear(defects, type, i, n) ==
    \E k \in 1..Len(defects) :
        /\ defects[k].type = type
        /\ near(defects[k].index, i, n)

\* the push of a defect with the severity never above moderate
Flag_NoSevere(defects, cond, type, severity, i, n, cause) ==
    IF cond /\ ~HasNear(defects, type, i, n)
    THEN Append(defects, [type |-> type,
                          severity |-> IF severity = "severe"
                                       THEN "moderate" ELSE severity,
                          index |-> i, of |-> n, cause |-> cause])
    ELSE defects

\* the push of a defect without the test of the sample
Flag_Untested(defects, cond, type, severity, i, n, cause) ==
    IF ~HasNear(defects, type, i, n)
    THEN Append(defects, [type |-> type, severity |-> severity, index |-> i,
                          of |-> n, cause |-> cause])
    ELSE defects

\* if (cond) { if (!defects.find(near)) defects.push({...}) }
Flag(defects, cond, type, severity, i, n, cause) ==
    IF cond /\ ~HasNear(defects, type, i, n)
    THEN Append(defects, [type |-> type, severity |-> severity, index |-> i,
                          of |-> n, cause |-> cause])
    ELSE defects

\* the body of the loop of detectDefects for sample i (0-based)
scanSample(defects, sample, i, n) ==
    LET speed == sample.travelSpeed
        workDev == Abs(sample.workAngle - WELD_IDEAL_WORK_ANGLE)
        arc == sample.arcLength
        d1 == Flag(defects, speed * 10 > WELD_IDEAL_TRAVEL_SPEED * 15,
                   "porosity",
                   IF speed > WELD_IDEAL_TRAVEL_SPEED * 2
                   THEN "severe" ELSE "moderate",
                   i, n, "Travel speed too fast")
        d2 == Flag(d1, workDev > WELD_WORK_ANGLE_TOLERANCE * 2,
                   "undercut",
                   IF workDev > WELD_WORK_ANGLE_TOLERANCE * 3
                   THEN "severe" ELSE "minor",
                   i, n, "Work angle too steep")
        d3 == Flag(d2, speed * 10 < WELD_IDEAL_TRAVEL_SPEED * 5,
                   "overlap",
                   IF speed * 10 < WELD_IDEAL_TRAVEL_SPEED * 3
                   THEN "severe" ELSE "moderate",
                   i, n, "Travel speed too slow")
        d4 == Flag(d3, arc > WELD_IDEAL_ARC_LENGTH + WELD_ARC_LENGTH_TOLERANCE * 2,
                   "incomplete_fusion",
                   IF arc > WELD_IDEAL_ARC_LENGTH + WELD_ARC_LENGTH_TOLERANCE * 3
                   THEN "severe" ELSE "moderate",
                   i, n, "Arc length too long")
    IN  Flag(d4, arc * 10 < WELD_IDEAL_ARC_LENGTH * 10 - WELD_ARC_LENGTH_TOLERANCE * 15,
             "spatter", "minor", i, n, "Arc length too short")

\* the loop of detectDefects from sample i on; the list after sample i is
\* bound as a value before the loop goes on
RECURSIVE detectFrom(_, _, _)
detectFrom(defects, samples, i) ==
    IF i >= Len(samples) THEN defects
    ELSE CHOOSE all \in
             {detectFrom(d, samples, i + 1) :
                  d \in {scanSample(defects, samples[i + 1], i, Len(samples))}} :
             TRUE

detectDefects(samples) == detectFrom(<<>>, samples, 0)

severityPenalty(severity) ==
    CASE severity = "severe"   -> 15
      [] severity = "moderate" -> 8
      [] severity = "minor"    -> 3
      [] OTHER                 -> 0

RECURSIVE defectPenalty(_)
defectPenalty(defects) ==
    IF defects = <<>> THEN 0
    ELSE severityPenalty(defects[1].severity) + defectPenalty(Tail(defects))

\* getRating(score) for the score num / den
getRating(num, den) ==
    IF num >= SCORE_RATING_THRESHOLDS.S * den THEN "S"
    ELSE IF num >= SCORE_RATING_THRESHOLDS.A * den THEN "A"
    ELSE IF num >= SCORE_RATING_THRESHOLDS.B * den THEN "B"
    ELSE IF num >= SCORE_RATING_THRESHOLDS.C * den THEN "C"
    ELSE IF num >= SCORE_RATING_THRESHOLDS.D * den THEN "D"
    ELSE "F"

\* Math.round(num / den) for num >= 0: floor(num / den + 1/2)
Round(num, den) == (2 * num + den) \div (2 * den)

Praise(num, den, good, bad) ==
    IF num >= 90 * den THEN <<good>>
    ELSE IF num < 50 * den THEN <<bad>>
    ELSE <<>>

Tip(defects, type, msg) ==
    IF \E k \in 1..Len(defects) : defects[k].type = type THEN <<msg>> ELSE <<>>

generateFeedback(speed, angle, arc, accuracy, consistency, den, defects) ==
    Praise(speed, den, "Excellent travel speed control",
           "Work on maintaining consistent travel speed")
    \o Praise(angle, den, "Great torch angle technique",
              "Keep the torch perpendicular to the work surface")
    \o Praise(arc, den, "Excellent arc length control",
              "Maintain a steady arc length of about 3mm")
    \o Praise(accuracy, den, "Precise weld placement",
              "Focus on following the weld line more closely")
    \o Praise(consistency, den, "Very consistent technique throughout",
              "Try to maintain a more even rhythm")
    \o Tip(defects, "porosity", "Slow down to reduce porosity")
    \o Tip(defects, "undercut", "Adjust torch angle to prevent undercut")
    \o Tip(defects, "overlap", "Increase travel speed to avoid overlap")
    \o Tip(defects, "incomplete_fusion", "Shorten arc length for better fusion")

ZeroResult(msg) ==
    [overallScore |-> 0, rating |-> "F", speedScore |-> 0, angleScore |-> 0,
     arcScore |-> 0, accuracyScore |-> 0, consistencyScore |-> 0,
     feedback |-> <<msg>>, defects |-> <<>>]

\* the analysis of a list the length guard lets through
analyzeSamples(samples) ==
    LET den == ScoreDen(Len(samples))
        speedScore == calculateSpeedScore(samples)
        angleScore == calculateAngleScore(samples)
        arcScore == calculateArcScore(samples)
        accuracyScore == calculateAccuracyScore(samples)
        consistencyScore == calculateConsistencyScore(samples)
        defects == detectDefects(samples)
        \* weights 0.2, 0.25, 0.2, 0.2, 0.15: the weighted score in whole
        \* twentieths, rounded down.  The rating thresholds and the halves
        \* Math.round turns on are whole numbers of twentieths, so the
        \* twentieths decide both.
        weighted == 4 * (speedScore \div den) + 5 * (angleScore \div den)
                    + 4 * (arcScore \div den) + 4 * (accuracyScore \div den)
                    + 3 * (consistencyScore \div den)
                    + (4 * (speedScore % den) + 5 * (angleScore % den)
                       + 4 * (arcScore % den) + 4 * (accuracyScore % den)
                       + 3 * (consistencyScore % den)) \div den
        overallScore == Max(0, weighted - defectPenalty(defects) * 20)
    IN  [overallScore |-> Round(overallScore, 20),
         rating |-> getRating(overallScore, 20),
         speedScore |-> Round(speedScore, den),
         angleScore |-> Round(angleScore, den),
         arcScore |-> Round(arcScore, den),
         accuracyScore |-> Round(accuracyScore, den),
         consistencyScore |-> Round(consistencyScore, den),
         feedback |-> generateFeedback(speedScore, angleScore, arcScore,
                                       accuracyScore, consistencyScore, den,
                                       defects),
         defects |-> defects]

\* analyzeWeldQuality with the length guard off by one
analyzeWeldQuality_GuardBelow1(samples) ==
    IF Len(samples) < 1
    THEN ZeroResult("Weld too short - insufficient samples collected")
    ELSE analyzeSamples(samples)

analyzeWeldQuality(samples) ==
    IF Len(samples) < 2
    THEN ZeroResult("Weld too short - insufficient samples collected")
    ELSE analyzeSamples(samples)

(***************************************************************************)
(* The game state store: the reducer cases the scoring path dispatches     *)
(***************************************************************************)
SCORE_BASE_POINTS == 100

SCORE_MAX_MULTIPLIER == 5000

SCORE_MULTIPLIER_INCREMENT == 250

SCORE_MULTIPLIER_DECAY == 100

\* createInitialState(): score.total 0, score.multiplier 1, welding.arcStability 0
InitialGameState == [total |-> 0, multiplier |-> 1000, arcStability |-> 0]

\* case 'ADD_SCORE': total + Math.round(points * state.score.multiplier)
reduceAddScore(state, points) ==
    [state EXCEPT !.total = @ + Round(points * state.multiplier, 1000)]

\* case 'SET_MULTIPLIER': Math.max(1, action.multiplier)
reduceSetMultiplier(state, multiplier) ==
    [state EXCEPT !.multiplier = Max(1000, multiplier)]

(***************************************************************************)
(* The mission the application loads at start (pipe-repair-01) and the     *)
(* listeners it registers on the event bus                                 *)
(***************************************************************************)
TargetPointValues == <<200, 200, 200, 300, 300>>

InitialMission == [weldsCompleted |-> 0, qualitySum |-> 0]

\* MissionLoader.completeWeldTarget for the first incomplete target: targets are
\* completed in list order, so the completed ones are the first weldsCompleted.
\* quality is state.welding.arcStability * 100, here in thousandths of a point.
completeWeldTarget(app, quality) ==
    LET k == app.missionLoader.weldsCompleted + 1
        pointsWithQuality == Round(TargetPointValues[k] * quality, 100000)
    IN  [app EXCEPT
            !.missionLoader = [weldsCompleted |-> k,
                               qualitySum |-> @.qualitySum + quality],
            !.gameState = reduceAddScore(@, pointsWithQuality)]

\* EventBus.on(WELD_COMPLETED, ...): complete the first incomplete target
onWeldCompleted(app) ==
    IF app.missionLoader.weldsCompleted < Len(TargetPointValues)
    THEN completeWeldTarget(app, app.gameState.arcStability * 100)
    ELSE app

\* EventBus.on(WELD_QUALITY, ...): show the rating and the score
onWeldQuality(app, result) ==
    [app EXCEPT !.notifications =
        Append(@, [rating |-> result.rating, overallScore |-> result.overallScore])]

\* EventBus.emit: the handlers run synchronously, event by event
RECURSIVE deliver(_, _)
deliver(app, events) ==
    IF events = <<>> THEN app
    ELSE LET e == events[1]
             next == CASE e.type = "weld:completed" -> onWeldCompleted(app)
                       [] e.type = "weld:quality"   -> onWeldQuality(app, e.result)
                       [] OTHER                      -> app
         IN  deliver(next, Tail(events))

App == [gameState |-> gameState, missionLoader |-> missionLoader,
        notifications |-> notifications]

SetApp(app) ==
    /\ gameState' = app.gameState
    /\ missionLoader' = app.missionLoader
    /\ notifications' = app.notifications

(***************************************************************************)
(* WeldingSystem.  startTime and the durations read from the clock go only *)
(* into event payloads and are left out.                                   *)
(***************************************************************************)
ARC_STABILITY_WINDOW == 20

RECURSIVE SqrtBetween(_, _, _)
SqrtBetween(x, lo, hi) ==
    IF lo >= hi THEN lo
    ELSE LET mid == (lo + hi + 1) \div 2
         IN  IF mid * mid <= x THEN SqrtBetween(x, mid, hi)
             ELSE SqrtBetween(x, lo, mid - 1)

\* floor(sqrt(x)) for 0 <= x < 2^30
ISqrt(x) == SqrtBetween(x, 0, 32767)

IdleEngine ==
    [welding |-> FALSE, samples |-> <<>>, arcStability |-> 0,
     recentArcLengths |-> <<>>]

\* the window after the push and the shift
pushArcLength(window, arcLength) ==
    LET pushed == Append(window, arcLength)
    IN  IF Len(pushed) > ARC_STABILITY_WINDOW THEN Tail(pushed) ELSE pushed

\* 1 - min(stdDev / 2, 1) * 2 in thousandths; the window holds 0.1 mm, so the
\* standard deviation in mm is sqrt(VarianceNum) / (10 * length)
stabilityOf(window) ==
    IF Len(window) < 3 THEN 0
    ELSE LET stdDev == (ISqrt(VarianceNum(window) * 100) * 10) \div Len(window)
             normalizedStdDev == Min(stdDev \div 2, 1000)
         IN  1000 - normalizedStdDev * 2

updateArcStability(ws, arcLength) ==
    LET window == pushArcLength(ws.recentArcLengths, arcLength)
    IN  [ws EXCEPT !.recentArcLengths = window,
                   !.arcStability = stabilityOf(window)]

\* addSample without the early return of an idle engine
addSample_NoGuard(ws, sample) ==
    updateArcStability([ws EXCEPT !.samples = Append(@, sample)],
                       sample.arcLength)

addSample(ws, sample) ==
    IF ~ws.welding THEN ws
    ELSE updateArcStability([ws EXCEPT !.samples = Append(@, sample)],
                            sample.arcLength)

\* the engine afterwards, the value returned, and the events emitted
finishWeld(ws) ==
    IF ~ws.welding
    THEN [ws |-> ws, result |-> ZeroResult("No weld was in progress"),
          events |-> <<>>]
    ELSE LET result == analyzeWeldQuality(ws.samples)
         IN  [ws |-> [ws EXCEPT !.welding = FALSE, !.samples = <<>>,
                                !.recentArcLengths = <<>>],
              result |-> result,
              events |-> << [type |-> "weld:completed",
                             sampleCount |-> Len(ws.samples)],
                            [type |-> "weld:quality", result |-> result] >>]

\* the engine afterwards and the events emitted; the value finishWeld returns
\* is dropped
startWeld(ws) ==
    LET prior == IF ws.welding THEN finishWeld(ws).events ELSE <<>>
    IN  [ws |-> [welding |-> TRUE, samples |-> <<>>, arcStability |-> 0,
                 recentArcLengths |-> <<>>],
         events |-> prior \o << [type |-> "weld:started"] >>]

\* cancelWeld that leaves the sample buffer as it is
cancelWeld_KeepSamples(ws) ==
    IF ws.welding
    THEN [ws EXCEPT !.welding = FALSE, !.recentArcLengths = <<>>,
                    !.arcStability = 0]
    ELSE ws

cancelWeld(ws) ==
    IF ws.welding
    THEN [ws EXCEPT !.welding = FALSE, !.samples = <<>>,
                    !.recentArcLengths = <<>>, !.arcStability = 0]
    ELSE ws

(***************************************************************************)
(* Samples the callers hand to addSample                                   *)
(***************************************************************************)
Sample(speed, work, travel, arc, distance) ==
    [travelSpeed |-> speed, workAngle |-> work, travelAngle |-> travel,
     arcLength |-> arc, distanceToTarget |-> distance]

IdealSample == Sample(150, 90, 15, 30, 0)

SampleInputs ==
    { IdealSample,
      Sample(177, 90, 15, 30, 0),
      Sample(400, 90, 15, 30, 0),
      Sample(150, 40, 15, 55, 2),
      Sample(60, 80, 20, 12, 6) }

WeldInit ==
    /\ weldingSystem = IdleEngine
    /\ weldOps = 0
    /\ weldLast = [op |-> "new", welding |-> FALSE, count |-> 0,
                   returned |-> <<>>, events |-> <<>>]

AppInit ==
    /\ gameState = InitialGameState
    /\ missionLoader = InitialMission
    /\ notifications = <<>>

\* what the ghost weldLast records of a call: the engine before it, the value
\* it returned (none: the empty sequence) and the events it emitted
Called(op, returned, events) ==
    [op |-> op, welding |-> weldingSystem.welding,
     count |-> Len(weldingSystem.samples), returned |-> returned,
     events |-> events]

Weld_startWeld ==
    /\ weldOps < MaxWeldOps
    /\ LET r == startWeld(weldingSystem)
       IN  /\ weldingSystem' = r.ws
           /\ SetApp(deliver(App, r.events))
           /\ weldLast' = Called("startWeld", <<>>, r.events)
    /\ weldOps' = weldOps + 1
    /\ UNCHANGED <<armVars, scoreVars, subVars, loopVars>>

Weld_addSample ==
    /\ weldOps < MaxWeldOps
    /\ Len(weldingSystem.samples) < MaxSamples
    /\ \E sample \in SampleInputs :
         weldingSystem' = addSample(weldingSystem, sample)
    /\ weldLast' = Called("addSample", <<>>, <<>>)
    /\ weldOps' = weldOps + 1
    /\ UNCHANGED <<armVars, scoreVars, appVars, subVars, loopVars>>

Weld_finishWeld ==
    /\ weldOps < MaxWeldOps
    /\ LET r == finishWeld(weldingSystem)
       IN  /\ weldingSystem' = r.ws
           /\ SetApp(deliver(App, r.events))
           /\ weldLast' = Called("finishWeld", <<r.result>>, r.events)
    /\ weldOps' = weldOps + 1
    /\ UNCHANGED <<armVars, scoreVars, subVars, loopVars>>

Weld_cancelWeld ==
    /\ weldOps < MaxWeldOps
    /\ weldingSystem' = cancelWeld(weldingSystem)
    /\ weldLast' = Called("cancelWeld", <<>>, <<>>)
    /\ weldOps' = weldOps + 1
    /\ UNCHANGED <<armVars, scoreVars, appVars, subVars, loopVars>>

WeldNext ==
    \/ Weld_startWeld
    \/ Weld_addSample
    \/ Weld_finishWeld
    \/ Weld_cancelWeld

(***************************************************************************)
(* ScoringSystem                                                           *)
(***************************************************************************)
\* getRatingBonus, in tenths
getRatingBonus(rating) ==
    CASE rating = "S" -> 20
      [] rating = "A" -> 15
      [] rating = "B" -> 12
      [] rating = "C" -> 10
      [] rating = "D" -> 8
      [] rating = "F" -> 5
      [] OTHER        -> 10

\* Math.round(SCORE_BASE_POINTS * (overallScore / 100) * ratingBonus * multiplier)
finalPointsOf(result, multiplier) ==
    Round(SCORE_BASE_POINTS * result.overallScore * getRatingBonus(result.rating)
          * multiplier, 100 * 10 * 1000)

\* updateMultiplier with the Math.min(..., SCORE_MAX_MULTIPLIER) cap left out
nextMultiplier_NoCap(multiplier, rating) ==
    IF rating \in {"S", "A", "B"}
    THEN multiplier + (CASE rating = "S" -> SCORE_MULTIPLIER_INCREMENT * 2
                         [] rating = "A" -> (SCORE_MULTIPLIER_INCREMENT * 15) \div 10
                         [] OTHER        -> SCORE_MULTIPLIER_INCREMENT)
    ELSE IF rating \in {"D", "F"}
    THEN Max(1000, multiplier - SCORE_MULTIPLIER_INCREMENT)
    ELSE multiplier

\* updateMultiplier with the S bonus applied as a plain increment of zero
nextMultiplier_NoSBonus(multiplier, rating) ==
    IF rating \in {"A", "B"}
    THEN Min(multiplier + (IF rating = "A"
                           THEN (SCORE_MULTIPLIER_INCREMENT * 15) \div 10
                           ELSE SCORE_MULTIPLIER_INCREMENT),
             SCORE_MAX_MULTIPLIER)
    ELSE IF rating \in {"D", "F"}
    THEN Max(1000, multiplier - SCORE_MULTIPLIER_INCREMENT)
    ELSE multiplier

\* updateMultiplier with the bonus of an 'A' weld forgotten
nextMultiplier_APlain(multiplier, rating) ==
    IF rating \in {"S", "A", "B"}
    THEN Min(multiplier + (CASE rating = "S" -> SCORE_MULTIPLIER_INCREMENT * 2
                             [] OTHER        -> SCORE_MULTIPLIER_INCREMENT),
             SCORE_MAX_MULTIPLIER)
    ELSE IF rating \in {"D", "F"}
    THEN Max(1000, multiplier - SCORE_MULTIPLIER_INCREMENT)
    ELSE multiplier

\* the multiplier updateMultiplier leaves
nextMultiplier(multiplier, rating) ==
    IF rating \in {"S", "A", "B"}
    THEN Min(multiplier + (CASE rating = "S" -> SCORE_MULTIPLIER_INCREMENT * 2
                             [] rating = "A" -> (SCORE_MULTIPLIER_INCREMENT * 15) \div 10
                             [] OTHER        -> SCORE_MULTIPLIER_INCREMENT),
             SCORE_MAX_MULTIPLIER)
    ELSE IF rating \in {"D", "F"}
    THEN Max(1000, multiplier - SCORE_MULTIPLIER_INCREMENT)
    ELSE multiplier

\* processWeld: the engine and the store afterwards
processWeld(ss, state, result) ==
    LET finalPoints == finalPointsOf(result, ss.multiplier)
        scored == reduceAddScore(state, finalPoints)
        m == nextMultiplier(ss.multiplier, result.rating)
    IN  [ss |-> [multiplier |-> m, comboActive |-> TRUE],
         state |-> reduceSetMultiplier(scored, m)]

\* update(delta): linear decay while the combo is active; the store is told
\* only when the multiplier moved by more than 0.01
scoreUpdate(ss, state, delta) ==
    IF ~ss.comboActive THEN [ss |-> ss, state |-> state]
    ELSE LET decayed == ss.multiplier - Quot(SCORE_MULTIPLIER_DECAY * delta, 1000)
             m == IF decayed < 1000 THEN 1000 ELSE decayed
             active == IF decayed < 1000 THEN FALSE ELSE ss.comboActive
         IN  [ss |-> [multiplier |-> m, comboActive |-> active],
              state |-> IF Abs(ss.multiplier - m) > 10
                        THEN reduceSetMultiplier(state, m) ELSE state]

scoreReset(ss, state) ==
    [ss |-> [multiplier |-> 1000, comboActive |-> FALSE],
     state |-> reduceSetMultiplier(state, 1000)]

setMultiplierValue(ss, state, value) ==
    LET m == Max(1000, Min(value, SCORE_MAX_MULTIPLIER))
    IN  [ss |-> [multiplier |-> m, comboActive |-> m > 1000],
         state |-> reduceSetMultiplier(state, m)]

(***************************************************************************)
(* Results and values the callers hand to the scoring engine: what the     *)
(* weld engine returns for these welds                                     *)
(***************************************************************************)
WeldInputs ==
    { <<IdealSample, IdealSample>>,
      <<Sample(177, 90, 15, 30, 0), Sample(177, 90, 15, 30, 0)>>,
      <<Sample(150, 90, 15, 30, 1), Sample(150, 90, 15, 30, 1)>>,
      <<Sample(150, 90, 31, 30, 2), Sample(150, 90, 31, 30, 2)>>,
      <<Sample(150, 90, 15, 45, 6), Sample(150, 90, 15, 45, 6)>>,
      <<Sample(200, 100, 25, 40, 4), Sample(200, 100, 25, 40, 4)>>,
      <<Sample(220, 110, 28, 45, 6), Sample(220, 110, 28, 45, 6)>>,
      <<IdealSample>> }

ResultInputs == { analyzeWeldQuality(w) : w \in WeldInputs }

SRatedResults == { r \in ResultInputs : r.rating = "S" }

ScoreDeltaInputs == {0, 20, 200, 5000, 60000}

MultiplierInputs == {0, 1100, 4800, 9000}

Scored(op, result) ==
    [op |-> op, result |-> result, multiplier |-> scoringSystem.multiplier,
     comboActive |-> scoringSystem.comboActive, total |-> gameState.total]

Score_processWeld ==
    /\ scoreOps < MaxScoreOps
    /\ \E result \in ResultInputs :
         LET r == processWeld(scoringSystem, gameState, result)
         IN  /\ scoringSystem' = r.ss
             /\ gameState' = r.state
             /\ scoreLast' = Scored("processWeld", <<result>>)
    /\ scoreOps' = scoreOps + 1
    /\ UNCHANGED <<armVars, weldVars, subVars, loopVars, missionLoader, notifications>>

Score_update ==
    /\ scoreOps < MaxScoreOps
    /\ \E delta \in ScoreDeltaInputs :
         LET r == scoreUpdate(scoringSystem, gameState, delta)
         IN  /\ scoringSystem' = r.ss
             /\ gameState' = r.state
             /\ scoreLast' = Scored("update", <<delta>>)
    /\ scoreOps' = scoreOps + 1
    /\ UNCHANGED <<armVars, weldVars, subVars, loopVars, missionLoader, notifications>>

Score_reset ==
    /\ scoreOps < MaxScoreOps
    /\ LET r == scoreReset(scoringSystem, gameState)
       IN  /\ scoringSystem' = r.ss
           /\ gameState' = r.state
    /\ scoreLast' = Scored("reset", <<>>)
    /\ scoreOps' = scoreOps + 1
    /\ UNCHANGED <<armVars, weldVars, subVars, loopVars, missionLoader, notifications>>

Score_setMultiplierValue ==
    /\ scoreOps < MaxScoreOps
    /\ \E value \in MultiplierInputs :
         LET r == setMultiplierValue(scoringSystem, gameState, value)
         IN  /\ scoringSystem' = r.ss
             /\ gameState' = r.state
    /\ scoreLast' = Scored("setMultiplierValue", <<>>)
    /\ scoreOps' = scoreOps + 1
    /\ UNCHANGED <<armVars, weldVars, subVars, loopVars, missionLoader, notifications>>

ScoreNext ==
    \/ Score_processWeld
    \/ Score_update
    \/ Score_reset
    \/ Score_setMultiplierValue

\* Scenario D: processWeld again and again with an 'S'-rated result
ScenarioD_processWeld ==
    /\ scoreOps < MaxScenarioCalls
    /\ \E result \in SRatedResults :
         LET r == processWeld(scoringSystem, gameState, result)
         IN  /\ scoringSystem' = r.ss
             /\ gameState' = r.state
             /\ scoreLast' = Scored("processWeld", <<result>>)
    /\ scoreOps' = scoreOps + 1
    /\ UNCHANGED <<armVars, weldVars, subVars, loopVars, missionLoader, notifications>>

ScoreInit ==
    /\ scoringSystem = [multiplier |-> 1000, comboActive |-> FALSE]
    /\ scoreOps = 0
    /\ scoreLast = [op |-> "new", result |-> <<>>, multiplier |-> 1000,
                    comboActive |-> FALSE, total |-> 0]

(***************************************************************************)
(* Constants of the vehicle (core/Constants).  Forces are newtons, the     *)
(* mass kilograms, velocities mm/s and mrad/s, positions millimetres.      *)
(***************************************************************************)
SUBMARINE_MASS == 8000

GRAVITY == 9810

DRAG_COEFFICIENT == 25

ANGULAR_DRAG == 3

MAX_SPEED == 4000

MAX_ROTATION_SPEED == 300

MAX_DEPTH == 200000

THRUSTER_FORCE == 20000

VERTICAL_THRUSTER_FORCE == 16000

\* a unit quaternion component on the fixed-point grid
QUAT_ONE == 1000

(***************************************************************************)
(* THREE.Vector3, THREE.Euler and THREE.Quaternion as far as               *)
(* SubmarinePhysics uses them.  A vector is <<x, y, z>>, a quaternion      *)
(* <<x, y, z, w>> in thousandths.  The Euler field `rotation` is written   *)
(* only together with `quaternion` (setRotation, reset) or from it (the    *)
(* end of update) and read only to rebuild it (the start of update), so    *)
(* the orientation is carried by `quaternion` alone.                       *)
(***************************************************************************)
ZeroVec == <<0, 0, 0>>

IdentityQuat == <<0, 0, 0, QUAT_ONE>>

LengthSq(v) == v[1] * v[1] + v[2] * v[2] + v[3] * v[3]

\* the least integer whose square is at least x
CeilSqrt(x) == LET r == ISqrt(x) IN IF r * r = x THEN r ELSE r + 1

\* sine and cosine of an angle in milliradians, in thousandths
SinMilli(a) ==
    LET a2 == Quot(a * a, 1000)
        a3 == Quot(a2 * a, 1000)
        a5 == Quot(Quot(a3 * a, 1000) * a, 1000)
    IN  a - Quot(a3, 6) + Quot(a5, 120)

CosMilli(a) ==
    LET a2 == Quot(a * a, 1000)
        a4 == Quot(a2 * a2, 1000)
        a6 == Quot(a4 * a2, 1000)
    IN  1000 - Quot(a2, 2) + Quot(a4, 24) - Quot(a6, 720)

\* Quaternion.normalize
normalize(q) ==
    LET l == ISqrt(q[1] * q[1] + q[2] * q[2] + q[3] * q[3] + q[4] * q[4])
    IN  IF l = 0 THEN IdentityQuat
        ELSE [i \in 1..4 |-> Quot(q[i] * QUAT_ONE, l)]

\* Quaternion.setFromEuler for an Euler of order 'YXZ' (angles in mrad)
setFromEuler(e) ==
    LET c1 == CosMilli(Quot(e[1], 2))
        c2 == CosMilli(Quot(e[2], 2))
        c3 == CosMilli(Quot(e[3], 2))
        s1 == SinMilli(Quot(e[1], 2))
        s2 == SinMilli(Quot(e[2], 2))
        s3 == SinMilli(Quot(e[3], 2))
        P(a, b, c) == Quot(Quot(a * b, 1000) * c, 1000)
    IN  <<P(s1, c2, c3) + P(c1, s2, s3),
          P(c1, s2, c3) - P(s1, c2, s3),
          P(c1, c2, s3) - P(s1, s2, c3),
          P(c1, c2, c3) + P(s1, s2, s3)>>

\* Quaternion.multiply: a * b
multiply(a, b) ==
    <<Quot(a[1] * b[4] + a[4] * b[1] + a[2] * b[3] - a[3] * b[2], QUAT_ONE),
      Quot(a[2] * b[4] + a[4] * b[2] + a[3] * b[1] - a[1] * b[3], QUAT_ONE),
      Quot(a[3] * b[4] + a[4] * b[3] + a[1] * b[2] - a[2] * b[1], QUAT_ONE),
      Quot(a[4] * b[4] - a[1] * b[1] - a[2] * b[2] - a[3] * b[3], QUAT_ONE)>>

\* Vector3.applyQuaternion: q * v * q^-1
applyQuaternion(v, q) ==
    LET ix == Quot(q[4] * v[1] + q[2] * v[3] - q[3] * v[2], QUAT_ONE)
        iy == Quot(q[4] * v[2] + q[3] * v[1] - q[1] * v[3], QUAT_ONE)
        iz == Quot(q[4] * v[3] + q[1] * v[2] - q[2] * v[1], QUAT_ONE)
        iw == Quot(-q[1] * v[1] - q[2] * v[2] - q[3] * v[3], QUAT_ONE)
    IN  <<Quot(ix * q[4] - iw * q[1] - iy * q[3] + iz * q[2], QUAT_ONE),
          Quot(iy * q[4] - iw * q[2] - iz * q[1] + ix * q[3], QUAT_ONE),
          Quot(iz * q[4] - iw * q[3] - ix * q[2] + iy * q[1], QUAT_ONE)>>

(***************************************************************************)
(* SubmarinePhysics                                                        *)
(***************************************************************************)
\* density * volume * g * factor with volume = mass / (density * factor)
buoyancyMagnitude == Quot(SUBMARINE_MASS * GRAVITY, 1000)

gravityForce == Quot(SUBMARINE_MASS * GRAVITY, 1000)

netBuoyancy == buoyancyMagnitude - gravityForce

\* the drag force on a hull moving at velocity v (zero at 1 mm/s and below)
dragForce(v) ==
    LET speed == ISqrt(LengthSq(v))
    IN  IF LengthSq(v) > 1
        THEN [i \in 1..3 |->
                 -Quot(DRAG_COEFFICIENT * speed * v[i], 10000000)]
        ELSE ZeroVec

\* calculateForces, linear part: the velocity after the forces acted for dt
linearForces(v, q, thrust, dt) ==
    LET scaled == <<thrust[1] * Quot(THRUSTER_FORCE, 1000),
                    thrust[2] * Quot(VERTICAL_THRUSTER_FORCE, 1000),
                    thrust[3] * Quot(THRUSTER_FORCE, 1000)>>
        world  == applyQuaternion(scaled, q)
        drag   == dragForce(v)
        force  == <<world[1] + drag[1],
                    world[2] + drag[2] + netBuoyancy,
                    world[3] + drag[3]>>
    IN  [i \in 1..3 |-> v[i] + Quot(force[i] * dt, SUBMARINE_MASS)]

\* calculateForces, angular part: torques, then the angular drag
angularForces(w, thrust, roll, dt) ==
    LET pitchTorque == thrust[2] * 3
        yawTorque   == -thrust[1] * 5
        rollTorque  == Quot(roll * MAX_ROTATION_SPEED, 100)
        x == w[1] + Quot(pitchTorque * dt, 10000)
        y == w[2] + Quot(yawTorque * dt, 10000)
        z == w[3] + Quot(rollTorque * dt, 10000)
        drag == 1000 - ANGULAR_DRAG * dt
    IN  <<Quot(x * drag, 1000), Quot(y * drag, 1000), Quot(z * drag, 1000)>>

\* the speed limit at twice MAX_SPEED
clampSpeed_Twice(v) ==
    IF LengthSq(v) > 4 * MAX_SPEED * MAX_SPEED
    THEN [i \in 1..3 |-> Quot(v[i] * 2 * MAX_SPEED, CeilSqrt(LengthSq(v)))]
    ELSE v

\* the speed limit: longer vectors are scaled back to MAX_SPEED; the length
\* is rounded up and the quotient toward zero, so that the grid vector is
\* never longer than the real one
clampSpeed(v) ==
    IF LengthSq(v) > MAX_SPEED * MAX_SPEED
    THEN [i \in 1..3 |-> Quot(v[i] * MAX_SPEED, CeilSqrt(LengthSq(v)))]
    ELSE v

clampRotationSpeed(w) ==
    [i \in 1..3 |-> Clamp(w[i], -MAX_ROTATION_SPEED, MAX_ROTATION_SPEED)]

\* integrateVelocity with the linear clamp left out
integrateVelocity_NoSpeedClamp(v, w) ==
    [linearVelocity |-> v, angularVelocity |-> clampRotationSpeed(w)]

integrateVelocity(v, w) ==
    [linearVelocity |-> clampSpeed(v), angularVelocity |-> clampRotationSpeed(w)]

\* integratePosition: the step, the depth clamp and the turn of the hull
integratePosition(p, q, v, w, dt) ==
    LET moved == [i \in 1..3 |-> p[i] + Quot(v[i] * dt, 1000)]
        above == moved[2] > 0
        y1    == IF above THEN 0 ELSE moved[2]
        vy1   == IF above THEN Min(0, v[2]) ELSE v[2]
        below == y1 < -MAX_DEPTH
        y2    == IF below THEN -MAX_DEPTH ELSE y1
        vy2   == IF below THEN Max(0, vy1) ELSE vy1
        angularDelta == [i \in 1..3 |-> Quot(w[i] * dt, 1000)]
        deltaQuat == setFromEuler(angularDelta)
    IN  [position       |-> <<moved[1], y2, moved[3]>>,
         linearVelocity |-> <<v[1], vy2, v[3]>>,
         quaternion     |-> normalize(multiply(q, deltaQuat)),
         depthClamped   |-> above \/ below]

\* applyThrust(forward, strafe, vertical, roll), some of them out of range
ThrustCommands ==
    { [forward |-> 1000,  strafe |-> 0,      vertical |-> 0,      roll |-> 0],
      [forward |-> 20000, strafe |-> 10000,  vertical |-> 30000,  roll |-> 20000],
      [forward |-> -500,  strafe |-> -10000, vertical |-> -30000, roll |-> -20000] }

\* the default position, one just below the surface and one just above the
\* floor, and two outside the water column
DefaultPosition == <<0, -10000, 0>>

InitialPositions ==
    { DefaultPosition, <<0, -200, 0>>, <<500, -199800, 0>> }

PositionInputs ==
    { <<0, -200, 0>>, <<0, 5000, 0>>, <<1000, -250000, -2000>> }

\* Euler angles of order 'YXZ' handed to setRotation
RotationInputs == { <<0, 1571, 0>>, <<200, -400, 100>> }

NoClampHit == [speed |-> FALSE, rotation |-> FALSE, depth |-> FALSE]

SubInit ==
    /\ position \in InitialPositions
    /\ quaternion = IdentityQuat
    /\ linearVelocity = ZeroVec
    /\ angularVelocity = ZeroVec
    /\ thrustInput = ZeroVec
    /\ rollInput = 0
    /\ subOps = 0
    /\ subLast = "new"
    /\ subClampHit = NoClampHit
    /\ subDelta = 0
    /\ subCalls = [pending |-> 0, consumed |-> 0]

\* applyThrust adding the command to the stored one
storeThrust_Accumulate(stored, c) ==
    <<stored[1] + c.strafe, stored[2] + c.vertical, stored[3] - c.forward>>

\* this.thrustInput.set(strafe, vertical, -forward)
storeThrust(stored, c) == <<c.strafe, c.vertical, -c.forward>>

Sub_applyThrust ==
    /\ subOps < MaxSubOps
    /\ \E c \in ThrustCommands :
         /\ thrustInput' = storeThrust(thrustInput, c)
         /\ rollInput' = c.roll
    /\ subOps' = subOps + 1
    /\ subLast' = "applyThrust"
    /\ subClampHit' = NoClampHit
    /\ subDelta' = 0
    /\ subCalls' = [subCalls EXCEPT !.pending = @ + 1]
    /\ UNCHANGED <<position, quaternion, linearVelocity, angularVelocity>>
    /\ UNCHANGED <<armVars, weldVars, scoreVars, appVars, loopVars>>

\* update(delta) on a hull at p, q moving at v, w under the command thrust, roll
subUpdate(p, q, v, w, thrust, roll, delta) ==
    LET dt == Min(delta, MAX_DT)
        v1 == linearForces(v, q, thrust, dt)
        w1 == angularForces(w, thrust, roll, dt)
        iv == integrateVelocity(v1, w1)
        ip == integratePosition(p, q, iv.linearVelocity, iv.angularVelocity, dt)
    IN  [position        |-> ip.position,
         quaternion      |-> ip.quaternion,
         linearVelocity  |-> ip.linearVelocity,
         angularVelocity |-> iv.angularVelocity,
         clampHit        |-> [speed    |-> iv.linearVelocity # v1,
                              rotation |-> iv.angularVelocity # w1,
                              depth    |-> ip.depthClamped]]

Sub_update ==
    /\ subOps < MaxSubOps
    /\ \E delta \in DeltaInputs :
         \E u \in {subUpdate(position, quaternion, linearVelocity,
                             angularVelocity, thrustInput, rollInput, delta)} :
            /\ position' = u.position
            /\ quaternion' = u.quaternion
            /\ linearVelocity' = u.linearVelocity
            /\ angularVelocity' = u.angularVelocity
            /\ subClampHit' = u.clampHit
            /\ subDelta' = delta
    /\ subCalls' = [pending |-> 0, consumed |-> subCalls.pending]
    /\ thrustInput' = ZeroVec
    /\ rollInput' = 0
    /\ subOps' = subOps + 1
    /\ subLast' = "update"
    /\ UNCHANGED <<armVars, weldVars, scoreVars, appVars, loopVars>>

Sub_setPosition ==
    /\ subOps < MaxSubOps
    /\ \E p \in PositionInputs : position' = p
    /\ linearVelocity' = ZeroVec
    /\ subOps' = subOps + 1
    /\ subLast' = "setPosition"
    /\ subClampHit' = NoClampHit
    /\ subDelta' = 0
    /\ subCalls' = subCalls
    /\ UNCHANGED <<quaternion, angularVelocity, thrustInput, rollInput>>
    /\ UNCHANGED <<armVars, weldVars, scoreVars, appVars, loopVars>>

Sub_setRotation ==
    /\ subOps < MaxSubOps
    /\ \E e \in RotationInputs : quaternion' = setFromEuler(e)
    /\ angularVelocity' = ZeroVec
    /\ subOps' = subOps + 1
    /\ subLast' = "setRotation"
    /\ subClampHit' = NoClampHit
    /\ subDelta' = 0
    /\ subCalls' = subCalls
    /\ UNCHANGED <<position, linearVelocity, thrustInput, rollInput>>
    /\ UNCHANGED <<armVars, weldVars, scoreVars, appVars, loopVars>>

\* reset() and reset(position)
Sub_reset ==
    /\ subOps < MaxSubOps
    /\ subOps > 0
    /\ \E p \in {DefaultPosition} \cup PositionInputs : position' = p
    /\ quaternion' = IdentityQuat
    /\ linearVelocity' = ZeroVec
    /\ angularVelocity' = ZeroVec
    /\ subOps' = subOps + 1
    /\ subLast' = "reset"
    /\ subClampHit' = NoClampHit
    /\ subDelta' = 0
    /\ subCalls' = subCalls
    /\ UNCHANGED <<thrustInput, rollInput>>
    /\ UNCHANGED <<armVars, weldVars, scoreVars, appVars, loopVars>>

SubNext ==
    \/ Sub_applyThrust
    \/ Sub_update
    \/ Sub_setPosition
    \/ Sub_setRotation
    \/ Sub_reset

(***************************************************************************)
(* App.gameLoop.  One tick runs handleInput (with handleDiscreteActions),  *)
(* submarine.update (vehicle dynamics and arm kinematics), updateWelding,  *)
(* scoringSystem.update and the end of the frame, in this order.  The pose *)
(* of vehicle and arm is carried as `poseFresh`: whether submarine.update  *)
(* has run in the current tick.  `calls` lists what the tick has called on *)
(* the weld engine and the scoring engine so far.                          *)
(***************************************************************************)
\* the statements of gameLoop in program order, with the sample taken first
stepAfter_SampleFirst(pc) ==
    CASE pc = "handleInput"     -> "updateWelding"
      [] pc = "updateWelding"   -> "submarineUpdate"
      [] pc = "submarineUpdate" -> "scoringUpdate"
      [] pc = "scoringUpdate"   -> "endFrame"
      [] OTHER                  -> "handleInput"

\* the statements of gameLoop in program order
stepAfter(pc) ==
    CASE pc = "handleInput"     -> "submarineUpdate"
      [] pc = "submarineUpdate" -> "updateWelding"
      [] pc = "updateWelding"   -> "scoringUpdate"
      [] pc = "scoringUpdate"   -> "endFrame"
      [] OTHER                  -> "handleInput"

\* what inputManager.getAction reports for WELD_ACTIVATE and for PAUSE
WeldActions == {"none", "pressed", "released"}

\* frame times in ms handed to gameLoop
FrameDeltas == {16, 100}

\* 90 - |direction.y| * 90 for the torch directions of two poses
WorkAngles == {90, 60}

Call(name, value) == [call |-> name, fresh |-> frame.poseFresh, value |-> value]

LoopInit ==
    frame = [pc |-> "handleInput", tick |-> 0, phase |-> "playing",
             delta |-> 0, torchActive |-> FALSE, wasWelding |-> FALSE,
             poseFresh |-> FALSE, calls |-> <<>>, processed |-> 0,
             pauseMenu |-> FALSE]

\* weldAction.pressed: torch.activate(); weldingSystem.startWeld()
weldPressed(r) ==
    [ws |-> r.ws, ss |-> scoringSystem, app |-> deliver(App, r.events),
     torch |-> TRUE, calls |-> <<Call("startWeld", <<>>)>>]

\* scoringSystem.processWeld(result), on the store the listeners left
weldProcessed(f, delivered, result, p) ==
    [ws |-> f.ws, ss |-> p.ss, app |-> [delivered EXCEPT !.gameState = p.state],
     torch |-> FALSE,
     calls |-> <<Call("finishWeld", <<f.result>>), Call("processWeld", <<result>>)>>]

weldFinished(f, delivered) ==
    weldProcessed(f, delivered, f.result,
                  processWeld(scoringSystem, delivered.gameState, f.result))

\* weldAction.released: torch.deactivate(); result = weldingSystem.finishWeld();
\* scoringSystem.processWeld(result)
weldReleased(f) == weldFinished(f, deliver(App, f.events))

\* the engines and the store after handleDiscreteActions saw the weld action
discreteWeldAction(action) ==
    IF action = "pressed" THEN weldPressed(startWeld(weldingSystem))
    ELSE IF action = "released" THEN weldReleased(finishWeld(weldingSystem))
    ELSE [ws |-> weldingSystem, ss |-> scoringSystem, app |-> App,
          torch |-> frame.torchActive, calls |-> <<>>]

\* what the tick's handleInput leaves behind
handledInput(d, delta, action, pause) ==
    /\ weldingSystem' = d.ws
    /\ scoringSystem' = d.ss
    /\ SetApp(d.app)
    /\ frame' = [frame EXCEPT
                   !.pc = stepAfter(@),
                   !.delta = delta,
                   !.phase = IF pause THEN "paused" ELSE @,
                   !.pauseMenu = IF pause THEN TRUE ELSE @,
                   !.torchActive = d.torch,
                   !.calls = @ \o d.calls,
                   !.processed = @ + (IF action = "released" THEN 1 ELSE 0)]

\* gameLoop up to and including handleInput
Loop_handleInput ==
    /\ frame.pc = "handleInput"
    /\ frame.phase = "playing"
    /\ frame.tick < MaxTicks
    /\ \E delta \in FrameDeltas, action \in WeldActions, pause \in BOOLEAN :
         handledInput(discreteWeldAction(action), delta, action, pause)
    /\ UNCHANGED <<armVars, subVars, weldOps, weldLast, scoreOps, scoreLast>>

\* gameLoop returns at once while the game is not being played
Loop_notPlaying ==
    /\ frame.pc = "handleInput"
    /\ frame.phase # "playing"
    /\ frame.tick < MaxTicks
    /\ frame' = [frame EXCEPT !.tick = @ + 1]
    /\ UNCHANGED <<armVars, subVars, weldVars, scoreVars, appVars>>

\* a click on the pause menu's Resume button: setPauseMenuVisible(false)
Loop_resumeClick ==
    /\ frame.pauseMenu
    /\ frame' = [frame EXCEPT !.pauseMenu = FALSE]
    /\ UNCHANGED <<armVars, subVars, weldVars, scoreVars, appVars>>

\* this.submarine.update(delta): the vehicle moves, then the arm
Loop_submarineUpdate ==
    /\ frame.pc = "submarineUpdate"
    /\ frame' = [frame EXCEPT !.pc = stepAfter(@), !.poseFresh = TRUE]
    /\ UNCHANGED <<armVars, subVars, weldVars, scoreVars, appVars>>

\* updateWelding: a sample while the torch burns, then the sync of the store
Loop_updateWelding ==
    /\ frame.pc = "updateWelding"
    /\ \E workAngle \in WorkAngles :
         LET isWelding == frame.torchActive
             sampling  == isWelding /\ weldingSystem.welding
             sample    == Sample(150, workAngle, 15, 30, 0)
             ws        == IF sampling THEN addSample(weldingSystem, sample)
                          ELSE weldingSystem
         IN  /\ weldingSystem' = ws
             /\ gameState' = IF isWelding # frame.wasWelding
                             THEN [gameState EXCEPT !.arcStability = ws.arcStability]
                             ELSE gameState
             /\ frame' = [frame EXCEPT
                            !.pc = stepAfter(@),
                            !.wasWelding = isWelding,
                            !.calls = IF sampling
                                      THEN Append(@, Call("addSample", <<sample>>))
                                      ELSE @]
    /\ UNCHANGED <<armVars, subVars, scoringSystem, missionLoader, notifications,
                   weldOps, weldLast, scoreOps, scoreLast>>

\* scoringSystem.update(delta)
Loop_scoringUpdate ==
    /\ frame.pc = "scoringUpdate"
    /\ LET r == scoreUpdate(scoringSystem, gameState, frame.delta)
       IN  /\ scoringSystem' = r.ss
           /\ gameState' = r.state
    /\ frame' = [frame EXCEPT !.pc = stepAfter(@),
                              !.calls = Append(@, Call("update", <<>>))]
    /\ UNCHANGED <<armVars, subVars, weldVars, missionLoader, notifications,
                   scoreOps, scoreLast>>

\* the rest of the frame: clock, cameras, UI, render, inputManager.endFrame
Loop_endFrame ==
    /\ frame.pc = "endFrame"
    /\ frame' = [frame EXCEPT !.pc = stepAfter(@), !.tick = @ + 1,
                              !.poseFresh = FALSE, !.calls = <<>>]
    /\ UNCHANGED <<armVars, subVars, weldVars, scoreVars, appVars>>

LoopNext ==
    \/ Loop_handleInput
    \/ Loop_notPlaying
    \/ Loop_resumeClick
    \/ Loop_submarineUpdate
    \/ Loop_updateWelding
    \/ Loop_scoringUpdate
    \/ Loop_endFrame

(***************************************************************************)
(* WeldingArmPhysics forward kinematics: lengths in mm, angles in mrad,    *)
(* sines, cosines and unit vectors in thousandths                          *)
(***************************************************************************)
SEGMENT_LENGTHS == [base |-> 300, upper |-> 800, lower |-> 600, wrist |-> 200]

\* Math.sin and Math.cos on [0, pi / 2]: each series is taken on an angle of
\* at most pi / 4, the other half of the quadrant through the complement
SinQuadrant(a) ==
    IF 4 * a > PI_MILLI THEN CosMilli(Quot(PI_MILLI, 2) - a) ELSE SinMilli(a)

CosQuadrant(a) ==
    IF 4 * a > PI_MILLI THEN SinMilli(Quot(PI_MILLI, 2) - a) ELSE CosMilli(a)

\* Math.sin and Math.cos for angles within [-3 pi / 2, 3 pi / 2]
ArmSin(a) ==
    LET b == Abs(a)
        s == IF b > PI_MILLI THEN -SinQuadrant(b - PI_MILLI)
             ELSE IF 2 * b > PI_MILLI THEN SinQuadrant(PI_MILLI - b)
             ELSE SinQuadrant(b)
    IN  IF a < 0 THEN -s ELSE s

ArmCos(a) ==
    LET b == Abs(a)
    IN  IF b > PI_MILLI THEN -CosQuadrant(b - PI_MILLI)
        ELSE IF 2 * b > PI_MILLI THEN -CosQuadrant(PI_MILLI - b)
        ELSE CosQuadrant(b)

\* getTipPositionLocal with the elbow angle taken alone
getTipPositionLocal_ElbowAlone(j, ext) ==
    LET cosBase == ArmCos(j.base)
        sinBase == ArmSin(j.base)
        upperY == Quot(SEGMENT_LENGTHS.upper * ArmCos(j.shoulder), 1000)
        upperZ == Quot(SEGMENT_LENGTHS.upper * ArmSin(j.shoulder), 1000)
        lowerY == Quot(SEGMENT_LENGTHS.lower * ArmCos(j.elbow), 1000)
        lowerZ == Quot(SEGMENT_LENGTHS.lower * ArmSin(j.elbow), 1000)
        extensionY == Quot(ext * ArmCos(j.elbow), 1000)
        extensionZ == Quot(ext * ArmSin(j.elbow), 1000)
    IN  <<Quot(upperZ * sinBase, 1000) + Quot(lowerZ * sinBase, 1000)
              + Quot(extensionZ * sinBase, 1000),
          SEGMENT_LENGTHS.base + upperY + lowerY + extensionY,
          Quot(upperZ * cosBase, 1000) + Quot(lowerZ * cosBase, 1000)
              + Quot(extensionZ * cosBase, 1000)>>

\* getTipPositionLocal for the joints j and the extension ext
getTipPositionLocal(j, ext) ==
    LET cosBase == ArmCos(j.base)
        sinBase == ArmSin(j.base)
        upperY == Quot(SEGMENT_LENGTHS.upper * ArmCos(j.shoulder), 1000)
        upperZ == Quot(SEGMENT_LENGTHS.upper * ArmSin(j.shoulder), 1000)
        elbowAngle == j.shoulder + j.elbow
        lowerY == Quot(SEGMENT_LENGTHS.lower * ArmCos(elbowAngle), 1000)
        lowerZ == Quot(SEGMENT_LENGTHS.lower * ArmSin(elbowAngle), 1000)
        extensionY == Quot(ext * ArmCos(elbowAngle), 1000)
        extensionZ == Quot(ext * ArmSin(elbowAngle), 1000)
    IN  <<Quot(upperZ * sinBase, 1000) + Quot(lowerZ * sinBase, 1000)
              + Quot(extensionZ * sinBase, 1000),
          SEGMENT_LENGTHS.base + upperY + lowerY + extensionY,
          Quot(upperZ * cosBase, 1000) + Quot(lowerZ * cosBase, 1000)
              + Quot(extensionZ * cosBase, 1000)>>

\* getTorchDirectionLocal: the direction of the last segment, normalized
getTorchDirectionLocal(j) ==
    LET totalAngle == j.shoulder + j.elbow
        z == ArmSin(totalAngle)
        dir == <<Quot(z * ArmSin(j.base), 1000), ArmCos(totalAngle),
                 Quot(z * ArmCos(j.base), 1000)>>
        length == ISqrt(LengthSq(dir))
    IN  [i \in 1..3 |-> Quot(dir[i] * 1000, length)]

(***************************************************************************)
(* Full thrust ahead held from rest: every tick applyThrust(1, 0, 0, 0)    *)
(* and then update(1/60).  subOps counts the calls; on the millisecond     *)
(* grid 1/60 s is 17, 17, 16 ms in turn, 50 ms every three ticks.          *)
(***************************************************************************)
ScenarioTicks == 300

FullAhead == [forward |-> 1000, strafe |-> 0, vertical |-> 0, roll |-> 0]

TickDelta(tick) == IF tick % 3 = 2 THEN 16 ELSE 17

ScenarioC_applyThrust ==
    /\ subOps < 2 * ScenarioTicks
    /\ subOps % 2 = 0
    /\ thrustInput' = storeThrust(thrustInput, FullAhead)
    /\ rollInput' = FullAhead.roll
    /\ subOps' = subOps + 1
    /\ subLast' = "applyThrust"
    /\ subClampHit' = NoClampHit
    /\ subDelta' = 0
    /\ subCalls' = [subCalls EXCEPT !.pending = @ + 1]
    /\ UNCHANGED <<position, quaternion, linearVelocity, angularVelocity>>
    /\ UNCHANGED <<armVars, weldVars, scoreVars, appVars, loopVars>>

ScenarioC_update ==
    /\ subOps < 2 * ScenarioTicks
    /\ subOps % 2 = 1
    /\ \E u \in {subUpdate(position, quaternion, linearVelocity,
                           angularVelocity, thrustInput, rollInput,
                           TickDelta(subOps \div 2))} :
          /\ position' = u.position
          /\ quaternion' = u.quaternion
          /\ linearVelocity' = u.linearVelocity
          /\ angularVelocity' = u.angularVelocity
          /\ subClampHit' = u.clampHit
    /\ subDelta' = TickDelta(subOps \div 2)
    /\ subCalls' = [pending |-> 0, consumed |-> subCalls.pending]
    /\ thrustInput' = ZeroVec
    /\ rollInput' = 0
    /\ subOps' = subOps + 1
    /\ subLast' = "update"
    /\ UNCHANGED <<armVars, weldVars, scoreVars, appVars, loopVars>>

ScenarioCNext ==
    \/ ScenarioC_applyThrust
    \/ ScenarioC_update

(***************************************************************************)
(* A weld run at one travel speed: startWeld, a sample per tick with the   *)
(* speed held and the other parameters ideal, and finishWeld on release    *)
(***************************************************************************)
ScenarioSamples == 20

\* ideal, more than twice the ideal, between 1.5 and 2 times, under 0.3 times
ScenarioSpeeds == {150, 400, 250, 40}

ScenarioWeld_startWeld ==
    /\ weldLast.op = "new"
    /\ LET r == startWeld(weldingSystem)
       IN  /\ weldingSystem' = r.ws
           /\ SetApp(deliver(App, r.events))
           /\ weldLast' = Called("startWeld", <<>>, r.events)
    /\ UNCHANGED <<weldOps, armVars, scoreVars, subVars, loopVars>>

ScenarioWeld_addSample ==
    /\ weldingSystem.welding
    /\ Len(weldingSystem.samples) < ScenarioSamples
    /\ \E speed \in ScenarioSpeeds :
         /\ weldingSystem.samples # <<>> =>
                speed = weldingSystem.samples[1].travelSpeed
         /\ weldingSystem' =
                addSample(weldingSystem, Sample(speed, 90, 15, 30, 0))
    /\ weldLast' = Called("addSample", <<>>, <<>>)
    /\ UNCHANGED <<weldOps, armVars, scoreVars, appVars, subVars, loopVars>>

ScenarioWeld_finishWeld ==
    /\ weldingSystem.welding
    /\ LET r == finishWeld(weldingSystem)
       IN  /\ weldingSystem' = r.ws
           /\ SetApp(deliver(App, r.events))
           /\ weldLast' = Called("finishWeld", <<r.result>>, r.events)
    /\ UNCHANGED <<weldOps, armVars, scoreVars, subVars, loopVars>>

\* a weld during which the travel speed only rises, the rest ideal
MaxRampSamples == 12

RampSpeeds == {150, 250, 400}

RampWeld_addSample ==
    /\ weldingSystem.welding
    /\ Len(weldingSystem.samples) < MaxRampSamples
    /\ \E speed \in RampSpeeds :
         /\ weldingSystem.samples # <<>> =>
                speed >= weldingSystem.samples[Len(weldingSystem.samples)].travelSpeed
         /\ weldingSystem' =
                addSample(weldingSystem, Sample(speed, 90, 15, 30, 0))
    /\ weldLast' = Called("addSample", <<>>, <<>>)
    /\ UNCHANGED <<weldOps, armVars, scoreVars, appVars, subVars, loopVars>>

RampWeldNext ==
    \/ ScenarioWeld_startWeld
    \/ RampWeld_addSample
    \/ ScenarioWeld_finishWeld

ScenarioWeldNext ==
    \/ ScenarioWeld_startWeld
    \/ ScenarioWeld_addSample
    \/ ScenarioWeld_finishWeld

Init == ArmInit /\ WeldInit /\ ScoreInit /\ AppInit /\ SubInit /\ LoopInit

SpecArm == Init /\ [][ArmNext]_vars

SpecWeld == Init /\ [][WeldNext]_vars

SpecScore == Init /\ [][ScoreNext]_vars

SpecScenarioD == Init /\ [][ScenarioD_processWeld]_vars

SpecScenarioWeld == Init /\ [][ScenarioWeldNext]_vars

SpecArmEntity == Init /\ [][ArmEntityNext]_vars

SpecRampWeld == Init /\ [][RampWeldNext]_vars

SpecScenarioC == Init /\ [][ScenarioCNext]_vars

SpecSub == Init /\ [][SubNext]_vars

SpecLoop == Init /\ [][LoopNext]_vars

(***************************************************************************)
(* C1: every joint angle (base, shoulder, elbow, wrist) and the extension  *)
(* are within their configured [min, max] after every update, whatever     *)
(* applyInput, setJointAngles, setExtension and reset calls surround it.   *)
(***************************************************************************)
C1_WithinLimits ==
    /\ \A n \in JointNames :
          /\ joints[n] >= ARM_JOINT_LIMITS[n].min
          /\ joints[n] <= ARM_JOINT_LIMITS[n].max
    /\ extension >= ARM_MIN_EXTENSION
    /\ extension <= ARM_MAX_EXTENSION

\* an update whose integration overshot a limit and was clamped back onto it
C1_Witness ==
    /\ armLast = "update"
    /\ armClampHit
    /\ joints.wrist = ARM_JOINT_LIMITS.wrist.max
    /\ extension = ARM_MIN_EXTENSION

(***************************************************************************)
(* C2: whatever thrust commands were given and however many ticks ran,     *)
(* after every SubmarinePhysics.update the linear velocity is no longer    *)
(* than MAX_SPEED and every angular velocity component is within           *)
(* [-MAX_ROTATION_SPEED, MAX_ROTATION_SPEED], also on the ticks where the  *)
(* depth clamp at the surface or at the floor rewrites the vertical        *)
(* velocity.                                                               *)
(***************************************************************************)
C2_VelocityWithinLimits ==
    /\ LengthSq(linearVelocity) <= MAX_SPEED * MAX_SPEED
    /\ \A i \in 1..3 :
          /\ angularVelocity[i] >= -MAX_ROTATION_SPEED
          /\ angularVelocity[i] <= MAX_ROTATION_SPEED

\* a tick on which the speed clamp, the rotation clamp and the depth clamp
\* all acted and the hull still moves
C2_Witness ==
    /\ subLast = "update"
    /\ subClampHit.speed
    /\ subClampHit.rotation
    /\ subClampHit.depth
    /\ linearVelocity # ZeroVec

(***************************************************************************)
(* C3: finishWeld() called with 0 or 1 accumulated samples (an idle        *)
(* engine, a cancelled weld, or a weld of at most one sample) returns      *)
(* overallScore = 0 and rating = 'F' and leaves the engine Idle.           *)
(***************************************************************************)
C3_ShortWeldIsZeroF ==
    (weldLast.op = "finishWeld" /\ weldLast.count <= 1) =>
        /\ weldLast.returned[1].overallScore = 0
        /\ weldLast.returned[1].rating = "F"
        /\ ~weldingSystem.welding

\* finishWeld on a weld in progress that holds exactly one sample
C3_Witness ==
    /\ weldLast.op = "finishWeld"
    /\ weldLast.welding
    /\ weldLast.count = 1

(***************************************************************************)
(* C6: startWeld() on an engine that is already Welding finishes the prior *)
(* weld and discards its result: no weld-completed or weld-quality event   *)
(* reaches a listener, the score, the mission progress and the             *)
(* notifications stay as they were, nothing is returned, and the engine is *)
(* Welding with an empty sample buffer and an empty arc-stability window.  *)
(***************************************************************************)
C6_ImplicitFinishDiscardsResult ==
    [][(weldLast'.op = "startWeld" /\ weldingSystem.welding) =>
          /\ \A k \in 1..Len(weldLast'.events) :
                weldLast'.events[k].type = "weld:started"
          /\ weldLast'.returned = <<>>
          /\ UNCHANGED appVars
          /\ weldingSystem'.welding
          /\ weldingSystem'.samples = <<>>
          /\ weldingSystem'.recentArcLengths = <<>>]_vars

(***************************************************************************)
(* C7: in every result finishWeld returns, the rating is the one the       *)
(* threshold table (>= 95 S, >= 85 A, >= 70 B, >= 55 C, >= 40 D, else F)   *)
(* assigns to the overallScore the result reports.                         *)
(***************************************************************************)
C7_RatingMatchesReportedScore ==
    weldLast.op = "finishWeld" =>
        weldLast.returned[1].rating
            = getRating(weldLast.returned[1].overallScore, 1)

(***************************************************************************)
(* C8: addSample on an engine that is not Welding changes nothing: the     *)
(* samples, the arc-stability window and the arc stability stay as they    *)
(* were; the sample buffer grows only by an addSample on a Welding engine, *)
(* and an Idle engine holds no samples for a later weld to pick up.        *)
(***************************************************************************)
C8_AddSampleIdleIsNoOp ==
    /\ [][(weldLast'.op = "addSample" /\ ~weldingSystem.welding) =>
             /\ weldingSystem' = weldingSystem
             /\ weldLast'.returned = <<>>
             /\ UNCHANGED appVars]_vars
    /\ [][Len(weldingSystem'.samples) > Len(weldingSystem.samples) =>
             /\ weldLast'.op = "addSample"
             /\ weldingSystem.welding]_vars
    /\ [](~weldingSystem.welding => weldingSystem.samples = <<>>)

\* addSample called on an idle engine after a weld has been finished
C8_Witness ==
    /\ weldLast.op = "addSample"
    /\ ~weldLast.welding
    /\ notifications # <<>>

(***************************************************************************)
(* C9: cancelWeld() leaves the engine Idle with no samples, returns        *)
(* nothing, emits no event and changes no score or mission progress; a     *)
(* finishWeld() right after it returns the zero/F result; the next weld    *)
(* starts from an empty buffer; finish and cancel both leave the engine    *)
(* Idle.                                                                   *)
(***************************************************************************)
C9_CancelDiscards ==
    /\ [][weldLast'.op = "cancelWeld" =>
             /\ ~weldingSystem'.welding
             /\ weldingSystem'.samples = <<>>
             /\ weldingSystem'.recentArcLengths = <<>>
             /\ weldLast'.returned = <<>>
             /\ weldLast'.events = <<>>
             /\ UNCHANGED appVars]_vars
    /\ [][(weldLast.op = "cancelWeld" /\ weldLast'.op = "finishWeld") =>
             /\ weldLast'.returned[1].overallScore = 0
             /\ weldLast'.returned[1].rating = "F"
             /\ weldLast'.returned[1].defects = <<>>
             /\ weldLast'.events = <<>>]_vars
    /\ [][weldLast'.op \in {"finishWeld", "cancelWeld"} =>
             ~weldingSystem'.welding]_vars
    /\ [][weldLast'.op = "startWeld" =>
             /\ weldingSystem'.samples = <<>>
             /\ weldingSystem'.recentArcLengths = <<>>]_vars
    /\ [](weldingSystem.welding \in BOOLEAN)

\* a weld holding two or more samples has just been cancelled
C9_Witness ==
    /\ weldLast.op = "cancelWeld"
    /\ weldLast.welding
    /\ weldLast.count >= 2

(***************************************************************************)
(* C4: after any sequence of processWeld, update, reset and                *)
(* setMultiplierValue calls the multiplier m satisfies                     *)
(* 1.0 <= m <= SCORE_MAX_MULTIPLIER.                                       *)
(***************************************************************************)
C4_MultiplierInRange ==
    /\ scoringSystem.multiplier >= 1000
    /\ scoringSystem.multiplier <= SCORE_MAX_MULTIPLIER

\* a processWeld whose increase was cut off at the cap
C4_Witness ==
    /\ scoreLast.op = "processWeld"
    /\ scoreLast.result[1].rating = "S"
    /\ scoreLast.multiplier + SCORE_MULTIPLIER_INCREMENT * 2 > SCORE_MAX_MULTIPLIER
    /\ scoringSystem.multiplier = SCORE_MAX_MULTIPLIER

(***************************************************************************)
(* C5: each processWeld(result) raises the cumulative total by exactly     *)
(* finalPoints = round(basePoints * ratingBonus * multiplier), with the    *)
(* multiplier held before the call applied once.                           *)
(***************************************************************************)
C5_TotalGrowsByFinalPoints ==
    scoreLast.op = "processWeld" =>
        gameState.total
            = scoreLast.total
              + finalPointsOf(scoreLast.result[1], scoreLast.multiplier)

(***************************************************************************)
(* C10 (Scenario D): processWeld called repeatedly with an 'S'-rated       *)
(* result from multiplier 1.0: every call made below the cap strictly      *)
(* raises the multiplier, no call takes it above SCORE_MAX_MULTIPLIER, and *)
(* from the ScenarioDCallsToCap-th call on it sits at the cap.             *)
(***************************************************************************)
ScenarioDCallsToCap ==
    (SCORE_MAX_MULTIPLIER - 1000) \div (SCORE_MULTIPLIER_INCREMENT * 2)

C10_ScenarioD ==
    scoreLast.op = "processWeld" =>
        /\ scoringSystem.multiplier <= SCORE_MAX_MULTIPLIER
        /\ scoreLast.multiplier < SCORE_MAX_MULTIPLIER =>
              scoringSystem.multiplier > scoreLast.multiplier
        /\ scoreOps >= ScenarioDCallsToCap =>
              scoringSystem.multiplier = SCORE_MAX_MULTIPLIER
        /\ scoreOps < ScenarioDCallsToCap =>
              scoringSystem.multiplier < SCORE_MAX_MULTIPLIER

\* a call made with the multiplier already at the cap
C10_Witness ==
    /\ scoreLast.op = "processWeld"
    /\ scoreLast.multiplier = SCORE_MAX_MULTIPLIER
    /\ scoringSystem.multiplier = SCORE_MAX_MULTIPLIER
    /\ scoreOps > ScenarioDCallsToCap

(***************************************************************************)
(* C11: processWeld moves the multiplier by the rating of the result: S, A *)
(* and B raise it by 2.0, 1.5 and 1.0 times the increment, capped at       *)
(* SCORE_MAX_MULTIPLIER; D and F lower it by the increment, floored at     *)
(* 1.0; C leaves it as it was.                                             *)
(***************************************************************************)
C11_MultiplierByRating ==
    scoreLast.op = "processWeld" =>
        LET before == scoreLast.multiplier
            rating == scoreLast.result[1].rating
            after  == scoringSystem.multiplier
            inc    == SCORE_MULTIPLIER_INCREMENT
        IN  /\ rating = "S" => after = Min(before + 2 * inc, SCORE_MAX_MULTIPLIER)
            /\ rating = "A" =>
                  after = Min(before + (15 * inc) \div 10, SCORE_MAX_MULTIPLIER)
            /\ rating = "B" => after = Min(before + inc, SCORE_MAX_MULTIPLIER)
            /\ rating \in {"D", "F"} => after = Max(before - inc, 1000)
            /\ rating = "C" => after = before

\* an 'A' weld scored below the cap from a multiplier off the increment grid
C11_Witness ==
    /\ scoreLast.op = "processWeld"
    /\ scoreLast.result[1].rating = "A"
    /\ scoringSystem.multiplier < SCORE_MAX_MULTIPLIER
    /\ scoringSystem.multiplier > scoreLast.multiplier
    /\ scoreLast.multiplier % SCORE_MULTIPLIER_INCREMENT # 0

(***************************************************************************)
(* C12: while comboActive, update(dt) lowers the multiplier by             *)
(* SCORE_MULTIPLIER_DECAY * dt; an update in which the multiplier comes    *)
(* down to 1.0 leaves it at 1.0 and clears comboActive in that same        *)
(* update.                                                                 *)
(***************************************************************************)
C12_DecayClearsComboAtOne ==
    (scoreLast.op = "update" /\ scoreLast.comboActive) =>
        /\ scoringSystem.multiplier
              = Max(1000, scoreLast.multiplier
                          - Quot(SCORE_MULTIPLIER_DECAY * scoreLast.result[1], 1000))
        /\ (scoreLast.multiplier > 1000 /\ scoringSystem.multiplier = 1000) =>
              ~scoringSystem.comboActive

(***************************************************************************)
(* C13: reset() of the scoring engine restores total = 0, multiplier = 1   *)
(* and comboActive = false, whatever processWeld and update calls came     *)
(* before it.                                                              *)
(***************************************************************************)
C13_ResetRestoresAll ==
    scoreLast.op = "reset" =>
        /\ gameState.total = 0
        /\ scoringSystem.multiplier = 1000
        /\ gameState.multiplier = 1000
        /\ ~scoringSystem.comboActive

(***************************************************************************)
(* C14: in every tick of the game loop the dynamics and kinematics of      *)
(* vehicle and arm are updated before the weld sample is taken, so the     *)
(* sample is of this tick's pose, and every processWeld is handed the      *)
(* result of the finishWeld call made right before it.                     *)
(***************************************************************************)
C14_TickOrder ==
    \A k \in 1..Len(frame.calls) :
       /\ frame.calls[k].call = "addSample" => frame.calls[k].fresh
       /\ frame.calls[k].call = "processWeld" =>
             /\ k > 1
             /\ frame.calls[k - 1].call = "finishWeld"
             /\ frame.calls[k].value = frame.calls[k - 1].value

\* a tick that took the second sample of a weld, after an earlier weld was
\* finished and processed
C14_Witness ==
    /\ frame.processed >= 1
    /\ Len(weldingSystem.samples) >= 2
    /\ \E k \in 1..Len(frame.calls) : frame.calls[k].call = "addSample"

(***************************************************************************)
(* C15: an applyThrust axis outside [-1, 1] is clamped, not rejected: the  *)
(* state after the next update is the state the update would have left had *)
(* the command been given with every axis clamped to [-1, 1].              *)
(***************************************************************************)
C15_OutOfRangeThrustIsClamped ==
    [][subLast' = "update" =>
          LET u == subUpdate(position, quaternion, linearVelocity, angularVelocity,
                             [i \in 1..3 |-> Clamp(thrustInput[i], -1000, 1000)],
                             Clamp(rollInput, -1000, 1000), subDelta')
          IN  /\ position' = u.position
              /\ quaternion' = u.quaternion
              /\ linearVelocity' = u.linearVelocity
              /\ angularVelocity' = u.angularVelocity]_vars

(***************************************************************************)
(* C16: applyThrust only stores the command of the next tick: position,    *)
(* orientation and velocities stay as they are; a call overwrites the      *)
(* command of the call before it; no other operation but update touches    *)
(* the stored command; update consumes the command and clears it, so an    *)
(* update with no applyThrust since the update before it moves the hull as *)
(* the zero command does.                                                  *)
(***************************************************************************)
C16_ThrustCommandIsPerTick ==
    /\ [][subLast' = "applyThrust" =>
             /\ UNCHANGED <<position, quaternion, linearVelocity, angularVelocity>>
             /\ \E c \in ThrustCommands :
                   /\ thrustInput' = <<c.strafe, c.vertical, -c.forward>>
                   /\ rollInput' = c.roll]_vars
    /\ [][subLast' \in {"setPosition", "setRotation", "reset"} =>
             UNCHANGED <<thrustInput, rollInput>>]_vars
    /\ [][subLast' = "update" =>
             /\ thrustInput' = ZeroVec
             /\ rollInput' = 0]_vars
    /\ [][(subLast' = "update" /\ subCalls.pending = 0) =>
             LET u == subUpdate(position, quaternion, linearVelocity,
                                angularVelocity, ZeroVec, 0, subDelta')
             IN  /\ position' = u.position
                 /\ quaternion' = u.quaternion
                 /\ linearVelocity' = u.linearVelocity
                 /\ angularVelocity' = u.angularVelocity]_vars

\* a tick without a command on a hull that an earlier command set moving
C16_Witness ==
    /\ subLast = "update"
    /\ subCalls.consumed = 0
    /\ subDelta > 0
    /\ linearVelocity # ZeroVec
    /\ angularVelocity # ZeroVec

(***************************************************************************)
(* C17: in every reachable state of the hull, whatever the initial         *)
(* position and the calls made, the vertical coordinate y is between       *)
(* -MAX_DEPTH and 0: the depth is within [0, maxDepth].                    *)
(***************************************************************************)
C17_DepthWithinRange == position[2] \in (-MAX_DEPTH)..0

(***************************************************************************)
(* Scenario A and Scenario B: the result of a weld of 20 samples at one    *)
(* travel speed, the other parameters ideal                                *)
(***************************************************************************)
\* the step is a finishWeld of a weld of 20 samples taken at this speed
ScenarioFinish(speed) ==
    /\ weldingSystem.welding
    /\ weldingSystem.samples = [i \in 1..20 |-> Sample(speed, 90, 15, 30, 0)]
    /\ weldLast'.op = "finishWeld"

\* finishWeld has just returned the result of a weld of 20 samples
ScenarioFinished ==
    /\ weldLast.op = "finishWeld"
    /\ weldLast.welding
    /\ weldLast.count = 20

ScenarioResult == weldLast.returned[1]

(***************************************************************************)
(* C18: Scenario B.  20 samples at travel speed 0.4, the rest ideal, give  *)
(* a result with at least one porosity defect of severity 'severe' and an  *)
(* overall score at least 15 below that of the defect-free weld, the 20    *)
(* ideal samples of Scenario A.                                            *)
(***************************************************************************)
C18_ScenarioB ==
    [][ScenarioFinish(400) =>
          /\ \E k \in 1..Len(ScenarioResult'.defects) :
                /\ ScenarioResult'.defects[k].type = "porosity"
                /\ ScenarioResult'.defects[k].severity = "severe"
          /\ LET ideal == analyzeWeldQuality([i \in 1..20 |-> IdealSample])
             IN  /\ ideal.defects = <<>>
                 /\ ScenarioResult'.overallScore <= ideal.overallScore - 15]_vars

\* the result of Scenario B: nine severe porosity defects and the score 0
C18_Witness ==
    /\ ScenarioFinished
    /\ Len(ScenarioResult.defects) = 9
    /\ \A k \in 1..9 :
          /\ ScenarioResult.defects[k].type = "porosity"
          /\ ScenarioResult.defects[k].severity = "severe"
    /\ ScenarioResult.speedScore = 0
    /\ ScenarioResult.overallScore = 0

(***************************************************************************)
(* C19: Scenario A.  20 samples at exactly the ideal speed, work angle,    *)
(* travel angle and arc length and at distance 0 give five sub-scores of   *)
(* at least 95, an overall score of at least 95, the rating 'S' and no     *)
(* defects.                                                                *)
(***************************************************************************)
C19_ScenarioA ==
    [][ScenarioFinish(150) =>
          /\ ScenarioResult'.speedScore >= 95
          /\ ScenarioResult'.angleScore >= 95
          /\ ScenarioResult'.arcScore >= 95
          /\ ScenarioResult'.accuracyScore >= 95
          /\ ScenarioResult'.consistencyScore >= 95
          /\ ScenarioResult'.overallScore >= 95
          /\ ScenarioResult'.rating = "S"
          /\ ScenarioResult'.defects = <<>>]_vars

\* the result of Scenario A, delivered to the mission
C19_Witness ==
    /\ ScenarioFinished
    /\ ScenarioResult.speedScore = 100
    /\ ScenarioResult.overallScore = 100
    /\ ScenarioResult.defects = <<>>
    /\ missionLoader # InitialMission

(***************************************************************************)
(* Scenario C: the hull after 5 s of full thrust ahead from rest           *)
(***************************************************************************)
\* the 300 ticks of the 5 seconds are done
ScenarioCDone == subOps >= 2 * 300 /\ subLast = "update"

\* the quadratic drag on the hull, N: DRAG_COEFFICIENT * speed * speed
dragMagnitude == Quot(DRAG_COEFFICIENT * LengthSq(linearVelocity), 10000000)

(***************************************************************************)
(* C20 as stated: after the 5 s of Scenario C the linear speed is within   *)
(* 1% of the terminal speed, the speed at which the quadratic drag equals  *)
(* the thrust.  In squares: the drag at the speed reached is between       *)
(* 0.99^2 and 1.01^2 of THRUSTER_FORCE.                                    *)
(***************************************************************************)
C20_ReachesTerminalSpeed ==
    ScenarioCDone =>
        /\ 9801 * THRUSTER_FORCE <= 10000 * dragMagnitude
        /\ 10000 * dragMagnitude <= 10201 * THRUSTER_FORCE

(***************************************************************************)
(* C20, amended: after the 5 s of Scenario C the hull moves straight ahead *)
(* at MAX_SPEED, the speed integrateVelocity clamps it to, and the drag at *)
(* that speed is under 1% of the thrust: the terminal speed is not         *)
(* approached.                                                             *)
(***************************************************************************)
C20_ReachesMaxSpeed ==
    ScenarioCDone =>
        /\ linearVelocity = <<0, 0, -MAX_SPEED>>
        /\ 100 * dragMagnitude < THRUSTER_FORCE

\* the last tick of the 5 s, its speed cut back to MAX_SPEED
C20_Witness ==
    /\ ScenarioCDone
    /\ subClampHit.speed
    /\ LengthSq(linearVelocity) = MAX_SPEED * MAX_SPEED
    /\ position[3] < -10000

C23_PausedCanResume ==
    (frame.phase = "paused" /\ frame.pc = "handleInput" /\ frame.tick < MaxTicks)
        => ENABLED (LoopNext /\ frame'.phase = "playing")

(***************************************************************************)
(* Defects of a result against the samples of the weld                     *)
(***************************************************************************)
DefectTypes ==
    {"porosity", "undercut", "overlap", "incomplete_fusion", "spatter"}

\* the sample passes the test detectDefects makes for the type
Flagged(sample, type) ==
    CASE type = "porosity" ->
           sample.travelSpeed * 10 > WELD_IDEAL_TRAVEL_SPEED * 15
      [] type = "undercut" ->
           Abs(sample.workAngle - WELD_IDEAL_WORK_ANGLE)
               > WELD_WORK_ANGLE_TOLERANCE * 2
      [] type = "overlap" ->
           sample.travelSpeed * 10 < WELD_IDEAL_TRAVEL_SPEED * 5
      [] type = "incomplete_fusion" ->
           sample.arcLength
               > WELD_IDEAL_ARC_LENGTH + WELD_ARC_LENGTH_TOLERANCE * 2
      [] OTHER ->
           sample.arcLength * 10
               < WELD_IDEAL_ARC_LENGTH * 10 - WELD_ARC_LENGTH_TOLERANCE * 15

\* the step is a finishWeld that analyses the samples of the weld
FinishAnalysed ==
    /\ weldingSystem.welding
    /\ Len(weldingSystem.samples) >= 2
    /\ weldLast'.op = "finishWeld"

\* the result has a defect of the type at sample i
DefectAt(defects, type, i) ==
    \E k \in 1..Len(defects) : defects[k].type = type /\ defects[k].index = i

(***************************************************************************)
(* C24: defects are deduplicated per type.  In every result two defects    *)
(* of one type are at least 0.1 apart in normalized position, sample index *)
(* over number of samples, and a flagged sample adds a defect exactly when *)
(* no defect of its type is already there at a distance under 0.1.         *)
(***************************************************************************)
C24_DedupPerType ==
    [][FinishAnalysed =>
          LET samples == weldingSystem.samples
              n == Len(samples)
              defects == weldLast'.returned[1].defects
          IN  /\ \A k, l \in 1..Len(defects) :
                    (k # l /\ defects[k].type = defects[l].type) =>
                        Abs(defects[k].index - defects[l].index) * 10 >= n
              /\ \A i \in 0..(n - 1) : \A type \in DefectTypes :
                    Flagged(samples[i + 1], type) =>
                        (DefectAt(defects, type, i) <=>
                            ~\E j \in 0..(i - 1) :
                                 /\ DefectAt(defects, type, j)
                                 /\ (i - j) * 10 < n)]_vars

\* the sample is beyond the threshold at which detectDefects rates the type
\* severe (spatter is always minor)
Severe(sample, type) ==
    CASE type = "porosity" -> sample.travelSpeed > WELD_IDEAL_TRAVEL_SPEED * 2
      [] type = "undercut" ->
           Abs(sample.workAngle - WELD_IDEAL_WORK_ANGLE)
               > WELD_WORK_ANGLE_TOLERANCE * 3
      [] type = "overlap" ->
           sample.travelSpeed * 10 < WELD_IDEAL_TRAVEL_SPEED * 3
      [] type = "incomplete_fusion" ->
           sample.arcLength
               > WELD_IDEAL_ARC_LENGTH + WELD_ARC_LENGTH_TOLERANCE * 3
      [] OTHER -> FALSE

(***************************************************************************)
(* C25: whenever a sample of a weld is beyond the severe threshold of a    *)
(* defect type, the result has a defect of that type of severity 'severe', *)
(* also when an earlier, less severe sample of the type lies within 0.1 of *)
(* it.                                                                     *)
(***************************************************************************)
C25_SevereIsReported ==
    [][FinishAnalysed =>
          \A type \in DefectTypes :
             (\E i \in 1..Len(weldingSystem.samples) :
                 Severe(weldingSystem.samples[i], type))
             => \E k \in 1..Len(weldLast'.returned[1].defects) :
                   /\ weldLast'.returned[1].defects[k].type = type
                   /\ weldLast'.returned[1].defects[k].severity = "severe"]_vars

\* the joint is strictly inside its limits
InsideLimits(j, n) ==
    ARM_JOINT_LIMITS[n].min < j[n] /\ j[n] < ARM_JOINT_LIMITS[n].max

(***************************************************************************)
(* C26: the pitch input drives the shoulder by +0.5 and the elbow by -0.5: *)
(* an update with a non-zero pitch input, on an arm whose shoulder and     *)
(* elbow were at rest and stay inside their limits, moves the shoulder and *)
(* the elbow in opposite directions.                                       *)
(***************************************************************************)
C26_ElbowBendsOppositely ==
    [][(/\ armLast' = "update"
        /\ armInput.pitch # 0
        /\ jointVelocities.shoulder = 0
        /\ jointVelocities.elbow = 0
        /\ InsideLimits(joints, "shoulder") /\ InsideLimits(joints', "shoulder")
        /\ InsideLimits(joints, "elbow") /\ InsideLimits(joints', "elbow")
        /\ joints'.shoulder # joints.shoulder)
       => (joints'.shoulder - joints.shoulder) * (joints'.elbow - joints.elbow) < 0
      ]_vars

(***************************************************************************)
(* C27: for the WeldingArm entity, after any applyInput and update(delta)  *)
(* calls with delta >= 0, every joint angle getJointAngles returns is      *)
(* within the limits of its joint and the extension within its limits.     *)
(***************************************************************************)
C27_EntityWithinLimits ==
    /\ \A i \in 1..4 :
          /\ weldingArm.jointAngles[i] >= ARM_JOINT_LIMITS[JointOrder[i]].min
          /\ weldingArm.jointAngles[i] <= ARM_JOINT_LIMITS[JointOrder[i]].max
    /\ weldingArm.extension >= ARM_MIN_EXTENSION
    /\ weldingArm.extension <= ARM_MAX_EXTENSION

(***************************************************************************)
(* C28: the multiplier in the game state equals the scoring engine's       *)
(* multiplier after every processWeld, update, reset and                   *)
(* setMultiplierValue call.                                                *)
(***************************************************************************)
C28_StoreMultiplierInStep ==
    scoreLast.op \in {"processWeld", "update", "reset", "setMultiplierValue"}
        => gameState.multiplier = scoringSystem.multiplier

(***************************************************************************)
(* C29: after any startWeld, addSample, finishWeld and cancelWeld calls    *)
(* the arc-stability window holds at most 20 values, the most recent arc   *)
(* lengths of the current weld in arrival order; the arc stability is 0    *)
(* while the window holds fewer than 3 values, also right after a weld was *)
(* finished or cancelled, and is always within [-1, 1].                    *)
(***************************************************************************)
C29_ArcStabilityWindow ==
    LET window == weldingSystem.recentArcLengths
        arcs == Column(weldingSystem.samples, "arcLength")
        n == Len(arcs)
    IN  /\ Len(window) <= ARC_STABILITY_WINDOW
        /\ window = SubSeq(arcs, Max(1, n - ARC_STABILITY_WINDOW + 1), n)
        /\ Len(window) < 3 => weldingSystem.arcStability = 0
        /\ weldingSystem.arcStability \in -1000..1000

(***************************************************************************)
(* Forward kinematics of the arm, to the millimetre grid                   *)
(***************************************************************************)
\* the vectors agree within tol in every component
Within(a, b, tol) == \A i \in 1..3 : Abs(a[i] - b[i]) <= tol

\* the tip as the claim composes it: the upper segment at the shoulder angle,
\* the lower segment with the extension at shoulder + elbow, turned by the yaw
ComposedTip(j, ext) ==
    LET reach == Quot(SEGMENT_LENGTHS.upper * ArmSin(j.shoulder), 1000)
                 + Quot((SEGMENT_LENGTHS.lower + ext)
                        * ArmSin(j.shoulder + j.elbow), 1000)
        height == SEGMENT_LENGTHS.base
                  + Quot(SEGMENT_LENGTHS.upper * ArmCos(j.shoulder), 1000)
                  + Quot((SEGMENT_LENGTHS.lower + ext)
                         * ArmCos(j.shoulder + j.elbow), 1000)
    IN  <<Quot(reach * ArmSin(j.base), 1000), height,
          Quot(reach * ArmCos(j.base), 1000)>>

(***************************************************************************)
(* C30: forward kinematics composes the joints cumulatively.  The tip is   *)
(* the base offset plus the upper segment at the shoulder angle plus the   *)
(* lower segment, its length with the extension, at shoulder + elbow, all  *)
(* turned by the base yaw; the wrist angle does not move the tip; and a    *)
(* change of the extension by d moves the tip by d along the unit vector   *)
(* getTorchDirectionLocal returns.  Lengths agree to the rounding of the   *)
(* millimetre grid.                                                        *)
(***************************************************************************)
C30_ForwardKinematics ==
    LET tip == getTipPositionLocal(joints, extension)
        dir == getTorchDirectionLocal(joints)
    IN  /\ Within(tip, ComposedTip(joints, extension), 3)
        /\ \A wrist \in {0, 1000, -3000} :
              getTipPositionLocal([joints EXCEPT !.wrist = wrist], extension) = tip
        /\ \A d \in {100, -200, 500} :
              Within(getTipPositionLocal(joints, extension + d),
                     [i \in 1..3 |-> tip[i] + Quot(d * dir[i], 1000)], 3)
        /\ Abs(LengthSq(dir) - 1000000) <= 4000

\* a pose with every joint turned and the arm extended off its default
C30_Witness ==
    /\ joints.base # 0
    /\ joints.shoulder # 0
    /\ joints.elbow # 0
    /\ joints.wrist # 0
    /\ 2 * Abs(joints.shoulder + joints.elbow) > PI_MILLI
    /\ extension # DefaultExtension

====
